---- MODULE Spec2Model ----
(***************************************************************************)
(* Model of the core of cryptofiend: the Bitfinex interval-based           *)
(* rate-limited dispatcher (SendRateLimitedHTTPRequest), the adapter       *)
(* methods built on it, the nonce step of the authenticated requests and   *)
(* the order-book store.                                                   *)
(***************************************************************************)
EXTENDS Integers, Naturals, Sequences, FiniteSets, TLC

VARIABLES
    now,                      \* wall clock, milliseconds (time.Now().UnixNano()/1e6)
    rateLimits,               \* Bitfinex.rateLimits: method+path -> last request time
    ipBanStartTime,           \* Bitfinex.ipBanStartTime
    lastBalances,             \* Bitfinex.lastBalances
    lastActiveOrders,         \* Bitfinex.lastActiveOrders
    AuthenticatedAPISupport,  \* exchange.Base.AuthenticatedAPISupport of each adapter
    Nonce,                    \* exchange.Base.Nonce of each adapter
    nanos,                    \* wall clock reading in nanoseconds (time.Now().UnixNano())
    ret,                      \* what the last handler did and returned
    throttle,                 \* history: the last provider throttle signal received
    lastSuccess,              \* history: per key, the time of the last successful request
    log,                      \* history: the calls of one scenario, in order
    nonceLog,                 \* history: per adapter, the nonces of its signed requests
    orderbooks,               \* Orderbooks.orderbooks: first -> second -> type -> Base
    m,                        \* Orderbooks.m: the goroutine holding the mutex, or 0
    proc,                     \* per goroutine: the call it is in, its locals, its result
    committed,                \* history: per key, the last ProcessOrderbook call that returned
    puts,                     \* history: the number of ProcessOrderbook calls started
    arg,                      \* the argument drawn for a conversion
    out,                      \* the conversion last applied to arg and what it returned
    tables                    \* Kraken.CurrencyPairCodeToSymbol and Kraken.CurrencyPairs

vars == <<now, rateLimits, ipBanStartTime, lastBalances, lastActiveOrders,
          AuthenticatedAPISupport, Nonce, nanos, ret, throttle, lastSuccess,
          log, nonceLog, orderbooks, m, proc, committed, puts, arg, out, tables>>

\* The order book store and its callers.
books == <<orderbooks, m, proc, committed, puts>>

\* The variables the dispatcher and the adapter methods leave alone.
\* The conversions (symbol codecs, order normalizers) and their tables.
conversions == <<arg, out, tables>>

outside == <<log, nonceLog, books, conversions>>

(***************************************************************************)
(* Bounds and input sets                                                   *)
(***************************************************************************)
\* The clock reading at construction. A wall clock in milliseconds since the
\* epoch is far beyond one ban window, so the zero value of a rateLimits entry
\* never throttles the first call.
StartTime == 100000
\* The clock readings the handlers can observe, as offsets from StartTime.
TimeOffsets == {0, 500, 1000, 6000, 60000, 61000}
Times == {StartTime + d : d \in TimeOffsets}
\* The nanosecond clock reading that seeds the nonce, and the cap of the counter.
StartNanos == 5
MaxNonce == 7
\* requestsPerMin values passed to the dispatcher.
Quotas == {1, 10, 60}
\* method+path keys.
KeyBalances == "POSTbalances"
KeyOrders == "POSTorders"
Keys == {KeyBalances, KeyOrders}
\* The key of CalcAvailableBalance; an entry of 0 in rateLimits is a key the
\* map does not have.
KeyAvailable == "POSTauth/calc/order/avail"
AdapterKeys == Keys \cup {KeyAvailable}
\* Decoded payloads: V0 is the empty list the adapter starts with.
Fresh == {"V1", "V2"}
Values == {"V0"} \cup Fresh
\* defaultValue arguments of a direct dispatcher call: a fallback value, or nil.
NilValue == "<nil>"
Defaults == {"D1", NilValue}
bitfinexAPIVersion1 == 1
bitfinexAPIVersion2 == 2
APIVersions == {bitfinexAPIVersion1, bitfinexAPIVersion2, 3}

(***************************************************************************)
(* The order book store: keys, goroutines, snapshots                       *)
(***************************************************************************)
Spot == "SPOT"
Margin == "MARGIN"
OrderbookTypes == {Spot, Margin}
CurrencyPairs == {<<"BTC", "USD">>, <<"BTC", "EUR">>, <<"LTC", "USD">>}
\* The keys of the calls: a pair and an orderbook type.
BookKeys == {<<p[1], p[2], t>> : p \in CurrencyPairs, t \in OrderbookTypes}
Goroutines == {1, 2}
MaxPuts == 2

\* A Go map: a function on the keys that are present.
EmptyMap == << >>
HasKey(map, k) == k \in DOMAIN map
MapSet(map, k, v) == [x \in (DOMAIN map) \union {k} |-> IF x = k THEN v ELSE map[x]]

\* Base{}: nil bids and asks and the zero time.  A snapshot of the model
\* carries in each field the number of the ProcessOrderbook call it is of.
ZeroBase == [Bids |-> 0, Asks |-> 0, LastUpdated |-> 0]
Idle == [pc |-> "idle", op |-> "none", key |-> <<"", "", "">>, book |-> ZeroBase,
         err |-> "nil", seen |-> {}]

(***************************************************************************)
(* Strings, currency pairs (package pair)                                  *)
(***************************************************************************)
Lowers == "abcdefghijklmnopqrstuvwxyz"
Uppers == "ABCDEFGHIJKLMNOPQRSTUVWXYZ"
Char(s, i) == SubSeq(s, i, i)
UpperChar(c) ==
    IF \E i \in 1..Len(Lowers) : Char(Lowers, i) = c
    THEN Char(Uppers, CHOOSE i \in 1..Len(Lowers) : Char(Lowers, i) = c)
    ELSE c
LowerChar(c) ==
    IF \E i \in 1..Len(Uppers) : Char(Uppers, i) = c
    THEN Char(Lowers, CHOOSE i \in 1..Len(Uppers) : Char(Uppers, i) = c)
    ELSE c

RECURSIVE Upper(_)
\* CurrencyItem.Upper
Upper(s) == IF s = "" THEN "" ELSE UpperChar(Char(s, 1)) \o Upper(SubSeq(s, 2, Len(s)))

RECURSIVE Lower(_)
\* CurrencyItem.Lower
Lower(s) == IF s = "" THEN "" ELSE LowerChar(Char(s, 1)) \o Lower(SubSeq(s, 2, Len(s)))

\* strings.Index: the first position of sep in s, or 0.
Index(s, sep) ==
    LET at == {i \in 1..(Len(s) - Len(sep) + 1) : SubSeq(s, i, i + Len(sep) - 1) = sep}
    IN  IF at = {} THEN 0 ELSE CHOOSE i \in at : \A j \in at : i <= j

RECURSIVE Split(_, _)
\* strings.Split for a separator that is not empty.
Split(s, sep) ==
    LET i == Index(s, sep)
    IN  IF i = 0 THEN <<s>>
        ELSE <<SubSeq(s, 1, i - 1)>> \o Split(SubSeq(s, i + Len(sep), Len(s)), sep)

\* pair.CurrencyPair, of which the codecs use the two currencies.
CurrencyPair(first, second) == [FirstCurrency |-> first, SecondCurrency |-> second]
NoPair == CurrencyPair("", "")
\* The outcome of a call that panics (index out of range), in place of a pair.
Panic == CurrencyPair("panic: index out of range", "")

\* pair.NewCurrencyPair
NewCurrencyPair(first, second) == CurrencyPair(first, second)

\* pair.NewCurrencyPairDelimiter: the first two parts of the symbol.
NewCurrencyPairDelimiter(symbol, delimiter) ==
    LET result == Split(symbol, delimiter)
    IN  IF Len(result) < 2 THEN Panic ELSE CurrencyPair(result[1], result[2])

\* CurrencyPair.Invert
Invert(p) == CurrencyPair(p.SecondCurrency, p.FirstCurrency)

\* CurrencyPair.Display(delimiter, uppercase).String()
Display(p, delimiter, uppercase) ==
    LET joined == p.FirstCurrency \o delimiter \o p.SecondCurrency
    IN  IF uppercase THEN Upper(joined) ELSE Lower(joined)

\* CurrencyPair.FormatPair(delimiter, uppercase)
FormatPair(p, delimiter, uppercase) ==
    IF uppercase THEN CurrencyPair(Upper(p.FirstCurrency), Upper(p.SecondCurrency))
    ELSE CurrencyPair(Lower(p.FirstCurrency), Lower(p.SecondCurrency))

\* The arguments of the conversions: currency codes, pairs and symbols.
Codes == {"BTC", "ETH", "eth", "USDT", "DASH", "XBT", "USD"}
ArgPairs == {CurrencyPair(a, b) : a, b \in Codes}
ArgSymbols == {"", "BTC", "BTCUSD", "btcusd", "ETHBTC", "DASHUSD", "BTC-ETH", "BTC_ETH"}
\* The arguments of the table lookups.
TablePairs == {CurrencyPair("XBT", "USD"), CurrencyPair("xbt", "usd"),
               CurrencyPair("ETH", "XBT"), CurrencyPair("USD", "XBT"),
               CurrencyPair("BTC", "USD")}
TableSymbols == {"XXBTZUSD", "XBTUSD", "XETHXXBT", "XXBTZUSD.d", "XBT/USD", "XBTUSD "}
NoArg == [pair |-> NoPair, symbol |-> ""]
NoOut == [op |-> "none"]
\* The tables before Run: nil maps.  built is history: the asset list and the
\* asset pair list of the Run that built the tables.
NoTables == [CurrencyPairCodeToSymbol |-> << >>, CurrencyPairs |-> << >>,
             built |-> [assets |-> << >>, assetPairs |-> << >>]]

(***************************************************************************)
(* Errors                                                                  *)
(***************************************************************************)
NoError == "nil"
ErrBase64 == "illegal base64 data"
errRateLimit == "ERR_RATE_LIMIT"
ErrNoCredentials == "authenticated request without credentials"
ErrTransport == "transport error"
ErrMessage == "exchange message"
ErrEmptyMessage == "empty message"
ErrUnmarshal == "unable to JSON unmarshal response"
ErrV2Error == "v2 error"
ErrInvalidAPIVersion == "invalid API version"
ErrNilDefault == "default value must be not be nil"
\* exchange.WarningHTTPRequestRateLimited(): the RateLimited signal.
WarningHTTPRequestRateLimited == "HTTP request was rate limited"

(***************************************************************************)
(* HTTP responses of the exchange                                          *)
(***************************************************************************)
\* Body kinds: "data" decodes into the result type and carries val; "message"
\* is an object with a message field; "ratelimit" is {"error":"ERR_RATE_LIMIT"};
\* "error" is an object with another error token; "both" has a message and the
\* ERR_RATE_LIMIT token; "errarray" is the v2 ["error", code, msg] array;
\* "garbage" is not JSON.
BodyKinds == {"message", "ratelimit", "error", "both", "errarray", "garbage"}
Bodies == [kind : {"data"}, val : Fresh] \cup [kind : BodyKinds, val : {"V0"}]
Body(k) == [kind |-> k, val |-> "V0"]
Data(v) == [kind |-> "data", val |-> v]
Responses ==
    [transportOK : {FALSE}, status : {0}, body : {Body("garbage")}]
    \cup [transportOK : {TRUE}, status : {200}, body : Bodies]
    \cup [transportOK : {TRUE}, status : {429}, body : {Body("garbage"), Body("message"), Data("V1")}]
    \cup [transportOK : {TRUE}, status : {500}, body : {Body("garbage"), Body("errarray"), Data("V1")}]

\* The responses drawn for the calls made through the dispatcher: one of each
\* class the two request functions tell apart.
DispatchResponses ==
    {[transportOK |-> FALSE, status |-> 0, body |-> Body("garbage")]}
    \cup [transportOK : {TRUE}, status : {200},
          body : {Data("V1"), Data("V2"), Body("message"), Body("ratelimit")}]
    \cup [transportOK : {TRUE}, status : {429, 500}, body : {Body("garbage")}]

HasMessage(body) == body.kind \in {"message", "both"}
HasRateLimitToken(body) == body.kind \in {"ratelimit", "both"}
HasErrorToken(body) == body.kind \in {"ratelimit", "both", "error"}
IsObject(body) == body.kind \in {"message", "ratelimit", "error", "both"}

\* Bitfinex.SendAuthenticatedHTTPRequest after the request was sent: the error
\* it returns and the value left in result (old is the value before the call).
ClassifyV1(resp, old) ==
    IF ~resp.transportOK THEN [err |-> ErrTransport, result |-> old]
    ELSE IF HasMessage(resp.body) THEN [err |-> ErrMessage, result |-> old]
    ELSE IF HasRateLimitToken(resp.body) THEN [err |-> errRateLimit, result |-> old]
    ELSE IF HasErrorToken(resp.body) THEN [err |-> ErrEmptyMessage, result |-> old]
    ELSE IF resp.status = 429 THEN [err |-> errRateLimit, result |-> old]
    ELSE IF resp.body.kind = "data" THEN [err |-> NoError, result |-> resp.body.val]
    ELSE [err |-> ErrUnmarshal, result |-> old]

\* Bitfinex.SendAuthenticatedHTTPRequest2 after the request was sent.
ClassifyV2(resp, old) ==
    IF ~resp.transportOK THEN [err |-> ErrTransport, result |-> old]
    ELSE IF 200 <= resp.status /\ resp.status <= 299
         THEN IF resp.body.kind = "data"
              THEN [err |-> NoError, result |-> resp.body.val]
              ELSE [err |-> ErrUnmarshal, result |-> old]
    ELSE IF resp.status = 429 THEN [err |-> errRateLimit, result |-> old]
    ELSE IF resp.body.kind \in {"errarray", "data"} THEN [err |-> ErrV2Error, result |-> old]
    ELSE [err |-> NoError, result |-> old]


(***************************************************************************)
(* Nonce                                                                   *)
(***************************************************************************)
NonceGet(n) == n
NonceSet(n, v) == v
NonceInc(n) == n + 1

\* Mutant: every call takes the nonce from the clock.
NonceStep_AlwaysSeeds(n, clock) == NonceSet(n, clock)

\* The nonce step of SendAuthenticatedHTTPRequest: seed from the clock when the
\* nonce is still zero, increment otherwise.
NonceStep(n, clock) ==
    IF NonceGet(n) = 0 THEN NonceSet(n, clock) ELSE NonceInc(n)

\* Bitfinex.SendAuthenticatedHTTPRequest / SendAuthenticatedHTTPRequest2 as a
\* whole: sent tells whether a request went to the exchange.
SendAuthenticatedHTTPRequest(auth, nonce, clock, resp, old) ==
    IF ~auth
    THEN [err |-> ErrNoCredentials, result |-> old, nonce |-> nonce, sent |-> FALSE]
    ELSE LET c == ClassifyV1(resp, old)
         IN  [err |-> c.err, result |-> c.result, nonce |-> NonceStep(nonce, clock),
              sent |-> TRUE]

SendAuthenticatedHTTPRequest2(auth, nonce, clock, resp, old) ==
    IF ~auth
    THEN [err |-> ErrNoCredentials, result |-> old, nonce |-> nonce, sent |-> FALSE]
    ELSE LET c == ClassifyV2(resp, old)
         IN  [err |-> c.err, result |-> c.result, nonce |-> NonceStep(nonce, clock),
              sent |-> TRUE]

(***************************************************************************)
(* Bitfinex.SendRateLimitedHTTPRequest                                     *)
(***************************************************************************)
MinuteMs == 60000
BanWindow == 60000

\* Mutant: the delay computed in seconds instead of milliseconds.
RequestDelay_Seconds(requestsPerMin) == 60 \div requestsPerMin

\* min delay between requests in msecs (unsigned integer division)
RequestDelay(requestsPerMin) == MinuteMs \div requestsPerMin

\* Mutant: the ban lasts one second instead of one minute.
IPBanned_OneSecond(curTimestamp, banStart) ==
    (banStart # 0) /\ ((curTimestamp - banStart) < 1000)

\* If we got IP banned wait 1 min before trying again
IPBanned(curTimestamp, banStart) ==
    (banStart # 0) /\ ((curTimestamp - banStart) < BanWindow)

\* Mutant: the ban holds back only the keys that were served before.
SkipRequest_BanOnServedKeys(curTimestamp, lastRequestTime, banStart, requestDelay) ==
    IF IPBanned(curTimestamp, banStart) /\ lastRequestTime # 0
    THEN TRUE
    ELSE (curTimestamp - lastRequestTime) < requestDelay

\* skipRequest as computed before the request is sent
SkipRequest(curTimestamp, lastRequestTime, banStart, requestDelay) ==
    IF IPBanned(curTimestamp, banStart)
    THEN TRUE
    ELSE (curTimestamp - lastRequestTime) < requestDelay

\* The call made when the request is not skipped.
SendByVersion(apiVersion, auth, nonce, clock, resp, old) ==
    IF apiVersion = bitfinexAPIVersion1
    THEN SendAuthenticatedHTTPRequest(auth, nonce, clock, resp, old)
    ELSE IF apiVersion = bitfinexAPIVersion2
    THEN SendAuthenticatedHTTPRequest2(auth, nonce, clock, resp, old)
    ELSE [err |-> ErrInvalidAPIVersion, result |-> old, nonce |-> nonce, sent |-> FALSE]

\* Mutant: the warning is returned but the default is not copied into result.
SetDefault_KeepsResult(old, defaultValue) ==
    IF defaultValue = NilValue
    THEN [err |-> ErrNilDefault, result |-> old]
    ELSE [err |-> WarningHTTPRequestRateLimited, result |-> old]

\* "set result to default value": the error returned and the value in result.
SetDefault(old, defaultValue) ==
    IF defaultValue = NilValue
    THEN [err |-> ErrNilDefault, result |-> old]
    ELSE [err |-> WarningHTTPRequestRateLimited, result |-> defaultValue]

\* Mutant: a success records the time of the call but leaves the ban marker.
AfterSend_KeepsBan(netErr, key, curTimestamp, limits, banStart) ==
    IF netErr = errRateLimit
    THEN [rateLimits |-> limits, ipBanStartTime |-> curTimestamp, skip |-> TRUE]
    ELSE IF netErr # NoError
    THEN [rateLimits |-> limits, ipBanStartTime |-> banStart, skip |-> FALSE]
    ELSE [rateLimits |-> [limits EXCEPT ![key] = curTimestamp],
          ipBanStartTime |-> banStart, skip |-> FALSE]

\* Mutant: every error of the request is taken for the throttle signal.
AfterSend_AnyErrorBans(netErr, key, curTimestamp, limits, banStart) ==
    IF netErr # NoError
    THEN [rateLimits |-> limits, ipBanStartTime |-> curTimestamp, skip |-> TRUE]
    ELSE [rateLimits |-> [limits EXCEPT ![key] = curTimestamp], ipBanStartTime |-> 0,
          skip |-> FALSE]

\* The bookkeeping after a request that was not skipped returned netErr.
AfterSend(netErr, key, curTimestamp, limits, banStart) ==
    IF netErr = errRateLimit
    THEN [rateLimits |-> limits, ipBanStartTime |-> curTimestamp, skip |-> TRUE]
    ELSE IF netErr # NoError
    THEN [rateLimits |-> limits, ipBanStartTime |-> banStart, skip |-> FALSE]
    ELSE [rateLimits |-> [limits EXCEPT ![key] = curTimestamp], ipBanStartTime |-> 0,
          skip |-> FALSE]

\* The whole function on the adapter state st = [rateLimits, ipBanStartTime,
\* auth, nonce]: the state it leaves, the error it returns, the value in
\* result, whether the request was attempted and sent and what the send returned.
SendRateLimitedHTTPRequest(st, curTimestamp, clock, requestsPerMin, key, apiVersion, old, defaultValue, resp) ==
    LET requestDelay == RequestDelay(requestsPerMin)
        lastRequestTime == st.rateLimits[key]
        skipRequest == SkipRequest(curTimestamp, lastRequestTime, st.ipBanStartTime,
                                   requestDelay)
    IN  IF skipRequest
        THEN LET d == SetDefault(old, defaultValue)
             IN  [rateLimits |-> st.rateLimits, ipBanStartTime |-> st.ipBanStartTime,
                  nonce |-> st.nonce, err |-> d.err, result |-> d.result,
                  attempted |-> FALSE, sent |-> FALSE, netErr |-> NoError]
        ELSE LET s == SendByVersion(apiVersion, st.auth, st.nonce, clock, resp, old)
                 a == AfterSend(s.err, key, curTimestamp, st.rateLimits, st.ipBanStartTime)
                 d == SetDefault(s.result, defaultValue)
             IN  [rateLimits |-> a.rateLimits, ipBanStartTime |-> a.ipBanStartTime,
                  nonce |-> s.nonce,
                  err |-> IF a.skip THEN d.err ELSE s.err,
                  result |-> IF a.skip THEN d.result ELSE s.result,
                  attempted |-> TRUE, sent |-> s.sent, netErr |-> s.err]

\* Whether the call would be skipped in the current state (no response is
\* drawn from the exchange then).
WouldSkip(requestsPerMin, key) ==
    SkipRequest(now, rateLimits[key], ipBanStartTime, RequestDelay(requestsPerMin))

AdapterState ==
    [rateLimits |-> rateLimits, ipBanStartTime |-> ipBanStartTime,
     auth |-> AuthenticatedAPISupport["Bitfinex"], nonce |-> Nonce["Bitfinex"]]


(***************************************************************************)
(* History of the dispatcher calls, kept beside the adapter's own state    *)
(***************************************************************************)
\* at: the time of the throttled call; skipped: a later call on the key was made
\* inside the ban window; retried: a call on the key was made after the window.
NoThrottle == [at |-> 0, key |-> "", skipped |-> FALSE, retried |-> TRUE]

\* A ban is active at time t: a throttle signal was received less than one ban
\* window ago.
BanActive(t) == throttle.at # 0 /\ (t - throttle.at) < 60000

\* Where a call on key at time t stands with respect to the last throttle
\* signal received on that key: inside its ban window, the first call after
\* the window, or a later one.
Phase(key, t) ==
    IF throttle.key # key THEN "none"
    ELSE IF (t - throttle.at) < 60000 THEN "window"
    ELSE IF ~throttle.retried THEN "first"
    ELSE "later"

ThrottleAfter(key, t, netErr) ==
    IF netErr = errRateLimit
    THEN [at |-> t, key |-> key, skipped |-> FALSE, retried |-> FALSE]
    ELSE IF Phase(key, t) = "window" THEN [throttle EXCEPT !.skipped = TRUE]
    ELSE IF Phase(key, t) = "first" THEN [throttle EXCEPT !.retried = TRUE]
    ELSE throttle

LastSuccessAfter(key, t, sent, netErr) ==
    IF sent /\ netErr = NoError THEN [lastSuccess EXCEPT ![key] = t] ELSE lastSuccess

\* The state of the key's rate limiter at time t, by the history: banned,
\* throttled (fewer than 60000/q ms after the last successful call), or ready.
LimiterState(key, q, t) ==
    IF BanActive(t) THEN "banned"
    ELSE IF (t - lastSuccess[key]) < (60000 \div q) THEN "throttled"
    ELSE "ready"

NoResponse == [transportOK |-> FALSE, status |-> 0, body |-> Body("garbage")]

\* The payload of a response by which the exchange served the request.
FreshOf(sent, resp) ==
    IF sent /\ resp.transportOK /\ resp.status = 200 /\ resp.body.kind = "data"
    THEN resp.body.val
    ELSE "none"

NoCall == [op |-> "none", key |-> "", q |-> 0, dv |-> NilValue,
           attempted |-> FALSE, sent |-> FALSE, netErr |-> NoError, fresh |-> "none",
           err |-> NoError, result |-> "V0", pre |-> "ready", phase |-> "none",
           last |-> 0, mErr |-> NoError, mData |-> "V0"]

\* The record of one dispatcher call r made by op with response resp; mErr and
\* mData are what the method that made the call returns to its caller, last is
\* the time of the served call on the key before this one (0 for none).
CallRecord(op, key, q, dv, resp, r, mErr, mData) ==
    [op |-> op, key |-> key, q |-> q, dv |-> dv,
     attempted |-> r.attempted, sent |-> r.sent, netErr |-> r.netErr,
     fresh |-> FreshOf(r.sent, resp),
     err |-> r.err, result |-> r.result,
     pre |-> LimiterState(key, q, now), phase |-> Phase(key, now),
     last |-> lastSuccess[key], mErr |-> mErr, mData |-> mData]

(***************************************************************************)
(* Actions of the dispatcher                                               *)
(***************************************************************************)
Adapters == {"Bitfinex", "Bittrex", "Kraken", "Liqui", "Poloniex"}

\* The state outside the rateLimits map after construction.
InitFields ==
    /\ now = StartTime
    /\ ipBanStartTime = 0
    /\ lastBalances = "V0"
    /\ lastActiveOrders = "V0"
    /\ Nonce = [a \in Adapters |-> 0]
    /\ nanos = StartNanos
    /\ ret = NoCall
    /\ throttle = NoThrottle
    /\ lastSuccess = [k \in AdapterKeys |-> 0]
    /\ log = <<>>
    /\ nonceLog = [a \in Adapters |-> <<>>]
    /\ orderbooks = EmptyMap
    /\ m = 0
    /\ proc = [g \in Goroutines |-> Idle]
    /\ committed = [k \in BookKeys |-> 0]
    /\ puts = 0
    /\ arg = NoArg
    /\ out = NoOut
    /\ tables = NoTables

InitBitfinex ==
    /\ rateLimits = [k \in AdapterKeys |-> 0]
    /\ InitFields

\* Setup: every adapter is configured with credentials or every one without.
Init ==
    /\ InitBitfinex
    /\ AuthenticatedAPISupport \in {[a \in Adapters |-> b] : b \in BOOLEAN}

\* The wall clock advances; the record of the last call is of the past.
Tick ==
    /\ \E t \in Times : t > now /\ now' = t
    /\ ret' = NoCall
    /\ UNCHANGED <<rateLimits, ipBanStartTime, lastBalances, lastActiveOrders,
                   AuthenticatedAPISupport, Nonce, nanos, throttle, lastSuccess,
                   outside>>

\* The effect of a dispatcher call r on the rate limiter, the nonce and the history.
Bookkeeping(key, r) ==
    /\ r.nonce <= MaxNonce
    /\ rateLimits' = r.rateLimits
    /\ ipBanStartTime' = r.ipBanStartTime
    /\ Nonce' = [Nonce EXCEPT !["Bitfinex"] = r.nonce]
    /\ throttle' = ThrottleAfter(key, now, r.netErr)
    /\ lastSuccess' = LastSuccessAfter(key, now, r.sent, r.netErr)

\* The responses the exchange can give to a call: none is drawn when no
\* request reaches the exchange (the call is skipped, the adapter has no
\* credentials, or the API version is not one the dispatcher knows).
ResponsesFor(q, key, ver) ==
    IF WouldSkip(q, key) \/ ~AuthenticatedAPISupport["Bitfinex"]
       \/ ver \notin {bitfinexAPIVersion1, bitfinexAPIVersion2}
    THEN {NoResponse}
    ELSE DispatchResponses

\* A direct call of SendRateLimitedHTTPRequest with a result that holds V0.
\* The API version is not read when the request is skipped.
Dispatch ==
    \E q \in Quotas, key \in Keys, dv \in Defaults :
      \E ver \in IF WouldSkip(q, key) THEN {bitfinexAPIVersion1} ELSE APIVersions :
        \E resp \in ResponsesFor(q, key, ver) :
          \E r \in {SendRateLimitedHTTPRequest(AdapterState, now, nanos, q, key, ver,
                                                "V0", dv, resp)} :
            /\ Bookkeeping(key, r)
            /\ ret' = CallRecord("Dispatch", key, q, dv, resp, r, r.err, r.result)
            /\ UNCHANGED <<now, lastBalances, lastActiveOrders,
                           AuthenticatedAPISupport, nanos, outside>>

Next == Tick \/ Dispatch

Spec == Init /\ [][Next]_vars

(***************************************************************************)
(* The Bitfinex adapter methods built on the dispatcher                    *)
(***************************************************************************)
QuotaBalances == 12
QuotaOrders == 10

\* Bitfinex.GetAccountBalance: the response starts empty and lastBalances is
\* the fallback; a nil error stores the response in lastBalances.
GetAccountBalance ==
    \E resp \in ResponsesFor(QuotaBalances, KeyBalances, bitfinexAPIVersion1) :
      \E r \in {SendRateLimitedHTTPRequest(AdapterState, now, nanos, QuotaBalances,
                    KeyBalances, bitfinexAPIVersion1, "V0", lastBalances, resp)} :
        /\ Bookkeeping(KeyBalances, r)
        /\ lastBalances' = IF r.err # NoError THEN lastBalances ELSE r.result
        /\ ret' = CallRecord("GetAccountBalance", KeyBalances, QuotaBalances,
                             lastBalances, resp, r, r.err, r.result)
        /\ UNCHANGED <<now, lastActiveOrders, AuthenticatedAPISupport, nanos, outside>>

\* Mutant: the response is never stored in lastActiveOrders.
ActiveOrdersCall_NoCache(resp) ==
    LET r == SendRateLimitedHTTPRequest(AdapterState, now, nanos, QuotaOrders,
                 KeyOrders, bitfinexAPIVersion1, "V0", lastActiveOrders, resp)
    IN  [r |-> r, cache |-> lastActiveOrders, err |-> r.err, orders |-> r.result]

\* Mutant: the response is stored in lastActiveOrders whatever the error.
ActiveOrdersCall_AlwaysCaches(resp) ==
    LET r == SendRateLimitedHTTPRequest(AdapterState, now, nanos, QuotaOrders,
                 KeyOrders, bitfinexAPIVersion1, "V0", lastActiveOrders, resp)
    IN  [r |-> r, cache |-> r.result, err |-> r.err, orders |-> r.result]

\* Bitfinex.GetActiveOrders as a function of the state: the dispatcher call it
\* makes, the cache it leaves and what it returns.
ActiveOrdersCall(resp) ==
    LET r == SendRateLimitedHTTPRequest(AdapterState, now, nanos, QuotaOrders,
                 KeyOrders, bitfinexAPIVersion1, "V0", lastActiveOrders, resp)
    IN  [r |-> r,
         cache |-> IF r.err # NoError THEN lastActiveOrders ELSE r.result,
         err |-> r.err, orders |-> r.result]

\* Bitfinex.GetActiveOrders, but for the variables outside the adapter.
GetActiveOrdersStep ==
    \E resp \in ResponsesFor(QuotaOrders, KeyOrders, bitfinexAPIVersion1) :
      \E c \in {ActiveOrdersCall(resp)} :
        /\ Bookkeeping(KeyOrders, c.r)
        /\ lastActiveOrders' = c.cache
        /\ ret' = CallRecord("GetActiveOrders", KeyOrders, QuotaOrders,
                             lastActiveOrders, resp, c.r, c.err, c.orders)
        /\ UNCHANGED <<now, lastBalances, AuthenticatedAPISupport, nanos>>

GetActiveOrders == GetActiveOrdersStep /\ UNCHANGED outside

\* err == exchange.WarningHTTPRequestRateLimited()
IsRateLimitedWarning(err) == err = WarningHTTPRequestRateLimited

\* The list of canonical orders made of a list of raw orders, one
\* convertOrderToExchangeOrder per element; NilOrders is the nil list.
NilOrders == "nil"
ConvertOrders(v) == IF v = "V0" THEN "E0" ELSE IF v = "V1" THEN "E1" ELSE "E2"

\* What GetOrders returns for what GetActiveOrders returned.
GetOrdersReturn(orders, err) ==
    IF IsRateLimitedWarning(err) THEN [data |-> ConvertOrders(orders), err |-> err]
    ELSE IF err # NoError THEN [data |-> NilOrders, err |-> err]
    ELSE [data |-> ConvertOrders(orders), err |-> NoError]

\* Bitfinex.GetOrders
GetOrders ==
    \E resp \in ResponsesFor(QuotaOrders, KeyOrders, bitfinexAPIVersion1) :
      \E c \in {ActiveOrdersCall(resp)} :
        \E g \in {GetOrdersReturn(c.orders, c.err)} :
          /\ Bookkeeping(KeyOrders, c.r)
          /\ lastActiveOrders' = c.cache
          /\ ret' = CallRecord("GetOrders", KeyOrders, QuotaOrders,
                               lastActiveOrders, resp, c.r, g.err, g.data)
          /\ UNCHANGED <<now, lastBalances, AuthenticatedAPISupport, nanos, outside>>

InitAdapter == Init

NextAdapter == Tick \/ GetAccountBalance \/ GetActiveOrders \/ GetOrders

SpecAdapter == InitAdapter /\ [][NextAdapter]_vars

(***************************************************************************)
(* One scenario of GetActiveOrders calls, logged call by call              *)
(***************************************************************************)
MaxLog == 3

LogEntry(r) ==
    [t |-> now, attempted |-> r.attempted, sent |-> r.sent, fresh |-> r.fresh,
     err |-> r.mErr, result |-> r.mData]

ScenarioCall ==
    /\ Len(log) < MaxLog
    /\ GetActiveOrdersStep
    /\ log' = Append(log, LogEntry(ret'))
    /\ UNCHANGED <<nonceLog, books, conversions>>

NextScenario == Tick \/ ScenarioCall

SpecScenario == Init /\ [][NextScenario]_vars

(***************************************************************************)
(* Order placement                                                         *)
(***************************************************************************)
OrderTypeExchangeLimit == "EXCHANGE_LIMIT"
OrderTypeMarginLimit == "MARGIN_LIMIT"
OrderTypes == {OrderTypeExchangeLimit, OrderTypeMarginLimit, "MARKET"}
OrderSideBuy == "buy"
OrderSideSell == "sell"
OrderSides == {OrderSideBuy, OrderSideSell, ""}
ErrOrderType == "order type not currently supported for this exchange"
ErrOrderSide == "invalid value for side"
ErrNotSuccess == "exchange message (success = false)"

\* The state of the adapter's rate limiter as a whole, by the history.
AdapterLimiterState ==
    IF BanActive(now) THEN "banned"
    ELSE IF \/ (now - lastSuccess[KeyBalances]) < (60000 \div QuotaBalances)
            \/ (now - lastSuccess[KeyOrders]) < (60000 \div QuotaOrders)
         THEN "throttled"
    ELSE "ready"

\* Mutant: the order is placed through the dispatcher, like the balances.
newOrder_RateLimited(st, curTimestamp, clock, resp) ==
    SendRateLimitedHTTPRequest(st, curTimestamp, clock, QuotaBalances, KeyBalances,
                               bitfinexAPIVersion1, "V0", "V0", resp)

\* Bitfinex.newOrder: the request goes straight to SendAuthenticatedHTTPRequest.
newOrder(st, curTimestamp, clock, resp) ==
    LET s == SendAuthenticatedHTTPRequest(st.auth, st.nonce, clock, resp, "V0")
    IN  [rateLimits |-> st.rateLimits, ipBanStartTime |-> st.ipBanStartTime,
         nonce |-> s.nonce, err |-> s.err, result |-> s.result,
         attempted |-> TRUE, sent |-> s.sent, netErr |-> s.err]

\* The order id made of the response; Go does not order the read of response
\* with respect to the call in "return response, b.Send...(&response)", so the
\* value returned is the decoded one or the one before the call.
OrderIDs(result) == {"id:" \o result, "id:V0"}

PlacementRecord(op, r, sent, fresh, mErr, mData) ==
    [op |-> op, key |-> "", q |-> 0, dv |-> NilValue,
     attempted |-> r.attempted, sent |-> sent, netErr |-> r.netErr, fresh |-> fresh,
     err |-> r.err, result |-> r.result, pre |-> AdapterLimiterState, phase |-> "none",
     last |-> 0, mErr |-> mErr, mData |-> mData]

\* Bitfinex.NewOrder
NewOrder ==
    \E orderType \in OrderTypes :
      IF orderType \notin {OrderTypeMarginLimit, OrderTypeExchangeLimit}
      THEN /\ ret' = PlacementRecord("NewOrder",
                        [attempted |-> FALSE, netErr |-> NoError, err |-> ErrOrderType,
                         result |-> "V0"], FALSE, "none", ErrOrderType, "")
           /\ UNCHANGED <<now, rateLimits, ipBanStartTime, lastBalances,
                          lastActiveOrders, AuthenticatedAPISupport, Nonce, nanos,
                          throttle, lastSuccess, outside>>
      ELSE \E resp \in IF AuthenticatedAPISupport["Bitfinex"]
                       THEN DispatchResponses ELSE {NoResponse} :
             \E r \in {newOrder(AdapterState, now, nanos, resp)} :
               \E id \in IF r.err = NoError THEN OrderIDs(r.result) ELSE {""} :
                 /\ r.nonce <= MaxNonce
                 /\ rateLimits' = r.rateLimits
                 /\ ipBanStartTime' = r.ipBanStartTime
                 /\ Nonce' = [Nonce EXCEPT !["Bitfinex"] = r.nonce]
                 /\ ret' = PlacementRecord("NewOrder", r, r.sent,
                                           FreshOf(r.sent, resp), r.err, id)
                 /\ UNCHANGED <<now, lastBalances, lastActiveOrders,
                                AuthenticatedAPISupport, nanos, throttle,
                                lastSuccess, outside>>

\* The answers of Bittrex to an order: no answer, not JSON, a success = false
\* envelope, a success envelope with a uuid or with a result that is no uuid.
BittrexResponses == {"transport", "garbage", "failure", "uuid", "baduuid"}

\* Bittrex.SendAuthenticatedHTTPRequest, HTTPRequestJSON and HTTPRequest on a
\* request that was sent.
BittrexHTTPRequest(resp) ==
    IF resp = "transport" THEN ErrTransport
    ELSE IF resp = "garbage" THEN ErrUnmarshal
    ELSE IF resp = "failure" THEN ErrNotSuccess
    ELSE IF resp = "baduuid" THEN ErrUnmarshal
    ELSE NoError

\* Bittrex.NewOrder over PlaceBuyLimit / PlaceSellLimit
BittrexNewOrder ==
    \E side \in OrderSides :
      IF side \notin {OrderSideBuy, OrderSideSell}
      THEN /\ ret' = PlacementRecord("BittrexNewOrder",
                        [attempted |-> FALSE, netErr |-> NoError, err |-> ErrOrderSide,
                         result |-> "V0"], FALSE, "none", ErrOrderSide, "")
           /\ UNCHANGED <<now, rateLimits, ipBanStartTime, lastBalances,
                          lastActiveOrders, AuthenticatedAPISupport, Nonce, nanos,
                          throttle, lastSuccess, outside>>
      ELSE IF ~AuthenticatedAPISupport["Bittrex"]
      THEN /\ ret' = PlacementRecord("BittrexNewOrder",
                        [attempted |-> TRUE, netErr |-> ErrNoCredentials,
                         err |-> ErrNoCredentials, result |-> "V0"],
                        FALSE, "none", ErrNoCredentials, "")
           /\ UNCHANGED <<now, rateLimits, ipBanStartTime, lastBalances,
                          lastActiveOrders, AuthenticatedAPISupport, Nonce, nanos,
                          throttle, lastSuccess, outside>>
      ELSE \E resp \in BittrexResponses :
             \E e \in {BittrexHTTPRequest(resp)} :
               \E id \in IF e = NoError THEN OrderIDs("V1") ELSE {""} :
                 /\ NonceStep(Nonce["Bittrex"], nanos) <= MaxNonce
                 /\ Nonce' = [Nonce EXCEPT !["Bittrex"] = NonceStep(@, nanos)]
                 /\ ret' = PlacementRecord("BittrexNewOrder",
                              [attempted |-> TRUE, netErr |-> e, err |-> e,
                               result |-> IF e = NoError THEN "V1" ELSE "V0"],
                              TRUE, IF e = NoError THEN "V1" ELSE "none", e, id)
                 /\ UNCHANGED <<now, rateLimits, ipBanStartTime, lastBalances,
                                lastActiveOrders, AuthenticatedAPISupport, nanos,
                                throttle, lastSuccess, outside>>

InitPlacement ==
    /\ InitBitfinex
    /\ AuthenticatedAPISupport \in
          {f \in [Adapters -> BOOLEAN] : f["Kraken"]}

NextPlacement == Tick \/ GetAccountBalance \/ NewOrder \/ BittrexNewOrder

SpecPlacement == InitPlacement /\ [][NextPlacement]_vars

(***************************************************************************)
(* Bitfinex.CalcAvailableBalance beside the other callers of the dispatcher *)
(***************************************************************************)
\* defVal := []float64{0.0}
DefVal == "[0.0]"
QuotaAvailable == 10
ErrInvalidOrderType == "invalid order type"
\* availableAmt[0] of a list that is empty
IndexOutOfRange == "panic: index out of range"

\* What CalcAvailableBalance returns after the dispatcher returned err with
\* result in availableAmt: 0.0 with the error, or the first element.
CalcAvailableBalanceReturn(result, err) ==
    IF err # NoError THEN [data |-> "0.0", err |-> err]
    ELSE IF result = "V0" THEN [data |-> IndexOutOfRange, err |-> IndexOutOfRange]
    ELSE [data |-> result, err |-> NoError]

\* Bitfinex.CalcAvailableBalance
CalcAvailableBalance ==
    \E orderType \in OrderTypes :
      IF orderType \notin {OrderTypeExchangeLimit, OrderTypeMarginLimit}
      THEN /\ ret' = [NoCall EXCEPT !.op = "CalcAvailableBalance",
                                    !.key = KeyAvailable, !.err = ErrInvalidOrderType,
                                    !.mErr = ErrInvalidOrderType, !.mData = "0.0"]
           /\ UNCHANGED <<now, rateLimits, ipBanStartTime, lastBalances,
                          lastActiveOrders, AuthenticatedAPISupport, Nonce, nanos,
                          throttle, lastSuccess, outside>>
      ELSE \E resp \in ResponsesFor(QuotaAvailable, KeyAvailable, bitfinexAPIVersion2) :
             \E r \in {SendRateLimitedHTTPRequest(AdapterState, now, nanos,
                           QuotaAvailable, KeyAvailable, bitfinexAPIVersion2, "V0",
                           DefVal, resp)} :
               \E c \in {CalcAvailableBalanceReturn(r.result, r.err)} :
                 /\ Bookkeeping(KeyAvailable, r)
                 /\ ret' = CallRecord("CalcAvailableBalance", KeyAvailable,
                                      QuotaAvailable, DefVal, resp, r, c.err, c.data)
                 /\ UNCHANGED <<now, lastBalances, lastActiveOrders,
                                AuthenticatedAPISupport, nanos, outside>>

NextCallSites == Tick \/ GetAccountBalance \/ GetActiveOrders \/ CalcAvailableBalance

SpecCallSites == Init /\ [][NextCallSites]_vars

(***************************************************************************)
(* The nonce of signed requests, one adapter instance each                 *)
(***************************************************************************)
MaxCalls == 3
MaxNanos == 7

\* What a signed request carries: the nonce, with the value of the counter
\* before the call and the clock reading of the call.
Signed(a, clock) ==
    [nonce |-> NonceStep(Nonce[a], clock), before |-> Nonce[a], clock |-> clock]

NonceRecord(op, err, nonce) == [op |-> op, err |-> err, nonce |-> nonce]

\* The head of every SendAuthenticatedHTTPRequest: the credentials check, the
\* step of the nonce and, if the request gets as far as being signed, the nonce
\* it carries.
AuthenticatedRequest(a, op, signs) ==
    /\ Len(nonceLog[a]) < MaxCalls
    /\ IF ~AuthenticatedAPISupport[a]
       THEN /\ ret' = NonceRecord(op, ErrNoCredentials, 0)
            /\ UNCHANGED <<Nonce, nonceLog>>
       ELSE /\ NonceStep(Nonce[a], nanos) <= MaxNonce
            /\ Nonce' = [Nonce EXCEPT ![a] = NonceStep(@, nanos)]
            /\ nonceLog' = IF signs
                           THEN [nonceLog EXCEPT ![a] = Append(@, Signed(a, nanos))]
                           ELSE nonceLog
            /\ ret' = NonceRecord(op, IF signs THEN NoError ELSE ErrBase64,
                                  NonceStep(Nonce[a], nanos))
    /\ UNCHANGED <<now, rateLimits, ipBanStartTime, lastBalances, lastActiveOrders,
                   AuthenticatedAPISupport, nanos, throttle, lastSuccess, log, books,
                   conversions>>

\* Bitfinex.SendAuthenticatedHTTPRequest and SendAuthenticatedHTTPRequest2
BitfinexRequest == AuthenticatedRequest("Bitfinex", "BitfinexRequest", TRUE)
BitfinexRequest2 == AuthenticatedRequest("Bitfinex", "BitfinexRequest2", TRUE)

\* Bittrex.SendAuthenticatedHTTPRequest
BittrexRequest == AuthenticatedRequest("Bittrex", "BittrexRequest", TRUE)

\* Kraken.SendAuthenticatedHTTPRequest: a secret that is not base64 ends the
\* call after the step of the nonce and before the request is signed.
KrakenRequest ==
    \E secretDecodes \in BOOLEAN :
        AuthenticatedRequest("Kraken", "KrakenRequest", secretDecodes)

\* The nanosecond clock advances between two calls, or does not.
TickNanos ==
    /\ \E t \in (nanos + 1)..MaxNanos : nanos' = t
    /\ ret' = NoCall
    /\ UNCHANGED <<now, rateLimits, ipBanStartTime, lastBalances, lastActiveOrders,
                   AuthenticatedAPISupport, Nonce, throttle, lastSuccess, outside>>

InitNonce ==
    /\ InitBitfinex
    /\ AuthenticatedAPISupport \in [Adapters -> BOOLEAN]

NextNonce ==
    TickNanos \/ BitfinexRequest \/ BitfinexRequest2 \/ BittrexRequest \/ KrakenRequest

SpecNonce == InitNonce /\ [][NextNonce]_vars

(***************************************************************************)
(* The order book store under concurrent callers                           *)
(***************************************************************************)
ErrPrimaryCurrencyNotFound == "Error primary currency for orderbook not found."
ErrSecondaryCurrencyNotFound == "Error secondary currency for orderbook not found."

\* Orderbooks.FirstCurrencyExists / SecondCurrencyExists
FirstCurrencyExists(books_, first) == HasKey(books_, first)
SecondCurrencyExists(books_, first, second) ==
    HasKey(books_, first) /\ HasKey(books_[first], second)

\* A Go map read: the zero value for a key that is absent.
Lookup(books_, key) ==
    IF /\ SecondCurrencyExists(books_, key[1], key[2])
       /\ HasKey(books_[key[1]][key[2]], key[3])
    THEN books_[key[1]][key[2]][key[3]]
    ELSE ZeroBase

\* Mutant: Lock returns at once, whoever holds the mutex.
Lock_NoExclusion(g) == m' = g

\* Mutant: Unlock leaves the mutex with its holder.
Unlock_KeepsLocked(g) == m' = m

\* sync.Mutex.Lock / Unlock
Lock(g) == m = 0 /\ m' = g
Unlock(g) == m' = IF m = g THEN 0 ELSE m

\* A call that ends adds nothing to the history but, for ProcessOrderbook, the
\* snapshot that is now the one of its key.
Observe(key, n) ==
    [g \in Goroutines |->
        IF proc[g].op = "GetOrderbook" /\ proc[g].key = key /\ proc[g].pc # "done"
        THEN [proc[g] EXCEPT !.seen = @ \union {n}] ELSE proc[g]]

Rest_ == <<now, rateLimits, ipBanStartTime, lastBalances, lastActiveOrders,
           AuthenticatedAPISupport, Nonce, nanos, ret, throttle, lastSuccess,
           log, nonceLog>>

Rest == <<now, rateLimits, ipBanStartTime, lastBalances, lastActiveOrders,
          AuthenticatedAPISupport, Nonce, nanos, ret, throttle, lastSuccess,
          log, nonceLog, conversions>>

Ready(g) == proc[g].pc \in {"idle", "done"}
Fields == <<"Bids", "Asks", "LastUpdated">>
NextField(f) == IF f = "Bids" THEN "Asks" ELSE IF f = "Asks" THEN "LastUpdated" ELSE "unlock"

\* A goroutine calls GetOrderbook(_, p, orderbookType).
GetCall(g) ==
    \E key \in BookKeys :
        /\ Ready(g)
        /\ proc' = [proc EXCEPT ![g] =
                       [pc |-> "lock", op |-> "GetOrderbook", key |-> key,
                        book |-> ZeroBase, err |-> NoError, seen |-> {committed[key]}]]
        /\ UNCHANGED <<orderbooks, m, committed, puts, Rest>>

\* o.m.Lock() of either call
AcquireLock(g) ==
    /\ proc[g].pc = "lock"
    /\ Lock(g)
    /\ proc' = [proc EXCEPT ![g].pc = IF proc[g].op = "GetOrderbook"
                                      THEN "check" ELSE "stamp"]
    /\ UNCHANGED <<orderbooks, committed, puts, Rest>>

\* GetOrderbook: the two existence checks and their errors.
GetCheck(g) ==
    /\ proc[g].op = "GetOrderbook" /\ proc[g].pc = "check"
    /\ LET key == proc[g].key
       IN  proc' = [proc EXCEPT ![g] =
               IF ~FirstCurrencyExists(orderbooks, key[1])
               THEN [@ EXCEPT !.pc = "unlock", !.err = ErrPrimaryCurrencyNotFound]
               ELSE IF ~SecondCurrencyExists(orderbooks, key[1], key[2])
               THEN [@ EXCEPT !.pc = "unlock", !.err = ErrSecondaryCurrencyNotFound]
               ELSE [@ EXCEPT !.pc = "Bids"]]
    /\ UNCHANGED <<orderbooks, m, committed, puts, Rest>>

\* GetOrderbook: the return value, a Base copied out of the map a field at a time.
GetCopy(g) ==
    /\ proc[g].op = "GetOrderbook"
    /\ \E i \in 1..3 :
         /\ proc[g].pc = Fields[i]
         /\ proc' = [proc EXCEPT ![g].book[Fields[i]] =
                                     Lookup(orderbooks, proc[g].key)[Fields[i]],
                                 ![g].pc = NextField(Fields[i])]
    /\ UNCHANGED <<orderbooks, m, committed, puts, Rest>>

\* defer o.m.Unlock() of either call, and its return.
ReleaseLock(g) ==
    /\ proc[g].pc = "unlock"
    /\ Unlock(g)
    /\ proc' = [proc EXCEPT ![g].pc = "done"]
    /\ UNCHANGED <<orderbooks, committed, puts, Rest>>

\* A goroutine calls ProcessOrderbook(_, p, orderbookNew, orderbookType) with
\* the bids and asks of a new snapshot.
PutCall(g) ==
    \E key \in BookKeys :
        /\ Ready(g)
        /\ puts < MaxPuts
        /\ puts' = puts + 1
        /\ proc' = [proc EXCEPT ![g] =
                       [pc |-> "lock", op |-> "ProcessOrderbook", key |-> key,
                        book |-> [Bids |-> puts + 1, Asks |-> puts + 1,
                                  LastUpdated |-> 0],
                        err |-> NoError, seen |-> {}]]
        /\ UNCHANGED <<orderbooks, m, committed, Rest>>

\* ProcessOrderbook: the time stamp on its copy and the choice of the branch.
PutStamp(g) ==
    /\ proc[g].op = "ProcessOrderbook" /\ proc[g].pc = "stamp"
    /\ LET key == proc[g].key
       IN  proc' = [proc EXCEPT ![g].book.LastUpdated = proc[g].book.Bids,
                                ![g].pc =
               IF FirstCurrencyExists(orderbooks, key[1])
               THEN IF ~SecondCurrencyExists(orderbooks, key[1], key[2])
                    THEN "newSecond" ELSE "Bids"
               ELSE "newFirst"]
    /\ UNCHANGED <<orderbooks, m, committed, puts, Rest>>

\* Mutant: the map built for a new second currency replaces the map of the
\* first currency instead of being added to it.
PutNewMap_ReplacesFirst(g) ==
    /\ proc[g].op = "ProcessOrderbook" /\ proc[g].pc \in {"newSecond", "newFirst"}
    /\ LET key == proc[g].key
           b == MapSet(EmptyMap, key[3], proc[g].book)
       IN  orderbooks' = MapSet(orderbooks, key[1], MapSet(EmptyMap, key[2], b))
    /\ committed' = [committed EXCEPT ![proc[g].key] = proc[g].book.Bids]
    /\ proc' = [Observe(proc[g].key, proc[g].book.Bids) EXCEPT ![g].pc = "unlock"]
    /\ UNCHANGED <<m, puts, Rest>>

\* ProcessOrderbook: the branches that build new maps and hang them in the store.
PutNewMap(g) ==
    /\ proc[g].op = "ProcessOrderbook" /\ proc[g].pc \in {"newSecond", "newFirst"}
    /\ LET key == proc[g].key
           b == MapSet(EmptyMap, key[3], proc[g].book)
       IN  orderbooks' =
               IF proc[g].pc = "newSecond"
               THEN MapSet(orderbooks, key[1], MapSet(orderbooks[key[1]], key[2], b))
               ELSE MapSet(orderbooks, key[1], MapSet(EmptyMap, key[2], b))
    /\ committed' = [committed EXCEPT ![proc[g].key] = proc[g].book.Bids]
    /\ proc' = [Observe(proc[g].key, proc[g].book.Bids) EXCEPT ![g].pc = "unlock"]
    /\ UNCHANGED <<m, puts, Rest>>

\* ProcessOrderbook: the branch that assigns the Base to the entry of an
\* existing map, a field at a time.
PutStore(g) ==
    /\ proc[g].op = "ProcessOrderbook"
    /\ \E i \in 1..3 :
         /\ proc[g].pc = Fields[i]
         /\ LET key == proc[g].key
                entry == [Lookup(orderbooks, key) EXCEPT ![Fields[i]] = proc[g].book[Fields[i]]]
                inner == MapSet(orderbooks[key[1]][key[2]], key[3], entry)
            IN  orderbooks' = MapSet(orderbooks, key[1],
                                     MapSet(orderbooks[key[1]], key[2], inner))
         /\ IF i = 3
            THEN /\ committed' = [committed EXCEPT ![proc[g].key] = proc[g].book.Bids]
                 /\ proc' = [Observe(proc[g].key, proc[g].book.Bids)
                                EXCEPT ![g].pc = "unlock"]
            ELSE /\ committed' = committed
                 /\ proc' = [proc EXCEPT ![g].pc = NextField(Fields[i])]
    /\ UNCHANGED <<m, puts, Rest>>

InitOrderbook ==
    /\ InitBitfinex
    /\ AuthenticatedAPISupport = [a \in Adapters |-> TRUE]

NextOrderbook ==
    \E g \in Goroutines :
        \/ GetCall(g) \/ AcquireLock(g) \/ GetCheck(g) \/ GetCopy(g) \/ ReleaseLock(g)
        \/ PutCall(g) \/ PutStamp(g) \/ PutNewMap(g) \/ PutStore(g)

SpecOrderbook == InitOrderbook /\ [][NextOrderbook]_vars

(***************************************************************************)
(* Symbol codecs                                                           *)
(***************************************************************************)
\* RequestCurrencyPairFormat of the adapters, as SetDefaults leaves it.
BittrexFormat == [Delimiter |-> "-", Uppercase |-> TRUE]
PoloniexFormat == [Delimiter |-> "_", Uppercase |-> TRUE]
BitfinexFormat == [Delimiter |-> "", Uppercase |-> TRUE]
KrakenFormat == [Delimiter |-> "", Uppercase |-> TRUE]

\* Mutant: the symbol is made of the pair as it is, not of the inverted pair.
InvertedCurrencyPairToSymbol_NotInverted(format, p) ==
    Display(p, format.Delimiter, format.Uppercase)

\* Bittrex.CurrencyPairToSymbol, Poloniex.CurrencyPairToSymbol
InvertedCurrencyPairToSymbol(format, p) ==
    Display(Invert(p), format.Delimiter, format.Uppercase)

\* Bittrex.SymbolToCurrencyPair, Poloniex.SymbolToCurrencyPair
InvertedSymbolToCurrencyPair(format, symbol) ==
    LET p == NewCurrencyPairDelimiter(symbol, format.Delimiter)
    IN  IF p = Panic THEN Panic ELSE Invert(p)

\* What a codec made of the pair drawn: the symbol, and the pair of the symbol.
InvertedCodec(op, format) ==
    /\ arg # NoArg
    /\ out' = [op |-> op, format |-> format, pair |-> arg.pair,
               symbol |-> InvertedCurrencyPairToSymbol(format, arg.pair),
               back |-> InvertedSymbolToCurrencyPair(format,
                            InvertedCurrencyPairToSymbol(format, arg.pair))]
    /\ UNCHANGED <<arg, tables, Rest_, books>>

BittrexCodec == InvertedCodec("Bittrex", BittrexFormat)
PoloniexCodec == InvertedCodec("Poloniex", PoloniexFormat)

ErrSymbolLength == "symbol is longer than expected"
SymbolWidth == 6
CodeWidth == 3

\* Bitfinex.CurrencyPairToSymbol
BitfinexCurrencyPairToSymbol(p) ==
    Display(p, BitfinexFormat.Delimiter, BitfinexFormat.Uppercase)

\* Mutant: only symbols shorter than the width are refused.
BitfinexSymbolToCurrencyPair_LongAccepted(symbol) ==
    IF Len(symbol) < SymbolWidth
    THEN [pair |-> NoPair, err |-> ErrSymbolLength]
    ELSE [pair |-> FormatPair(NewCurrencyPair(SubSeq(symbol, 1, CodeWidth),
                                              SubSeq(symbol, CodeWidth + 1, Len(symbol))),
                              BitfinexFormat.Delimiter, BitfinexFormat.Uppercase),
          err |-> NoError]

\* Bitfinex.SymbolToCurrencyPair
BitfinexSymbolToCurrencyPair(symbol) ==
    IF Len(symbol) # SymbolWidth
    THEN [pair |-> NoPair, err |-> ErrSymbolLength]
    ELSE [pair |-> FormatPair(NewCurrencyPair(SubSeq(symbol, 1, CodeWidth),
                                              SubSeq(symbol, CodeWidth + 1, Len(symbol))),
                              BitfinexFormat.Delimiter, BitfinexFormat.Uppercase),
          err |-> NoError]

\* The Bitfinex codec on the pair drawn (there and back) and on the symbol drawn.
BitfinexCodec ==
    /\ arg # NoArg
    /\ out' = [op |-> "Bitfinex", pair |-> arg.pair,
               symbol |-> BitfinexCurrencyPairToSymbol(arg.pair),
               back |-> BitfinexSymbolToCurrencyPair(BitfinexCurrencyPairToSymbol(arg.pair)),
               given |-> arg.symbol,
               parsed |-> BitfinexSymbolToCurrencyPair(arg.symbol)]
    /\ UNCHANGED <<arg, tables, Rest_, books>>

\* What the exchange may list: assets with their alternative names, and asset
\* pairs with their base and quote assets.
KrakenAssets == [XXBT |-> "XBT", XETH |-> "ETH", ZUSD |-> "USD", XBT |-> "XBT"]
AssetLists == {KrakenAssets,
               [a \in {"XXBT", "ZUSD"} |-> KrakenAssets[a]],
               [a \in {"XXBT", "XETH", "ZUSD"} |-> KrakenAssets[a]]}
KrakenAssetPairs ==
    [n \in {"XXBTZUSD", "XXBTZUSD.d", "XETHXXBT", "XBTUSD"} |->
        IF n = "XETHXXBT" THEN [Base |-> "XETH", Quote |-> "XXBT"]
        ELSE IF n = "XBTUSD" THEN [Base |-> "XBT", Quote |-> "ZUSD"]
        ELSE [Base |-> "XXBT", Quote |-> "ZUSD"]]
MaxAssetPairs == 3
\* The asset pairs of a response in the order in which range visits them.
AssetPairOrders ==
    {o \in UNION {[1..n -> DOMAIN KrakenAssetPairs] : n \in 0..MaxAssetPairs} :
        \A i, j \in 1..Len(o) : i # j => o[i] # o[j]}

\* strings.HasSuffix
HasSuffix(str, suffix) ==
    Len(str) >= Len(suffix) /\ SubSeq(str, Len(str) - Len(suffix) + 1, Len(str)) = suffix

\* Mutant: the pair is entered in CurrencyPairs under the code of the pair.
KrakenEnter_UnderCode(t, assetNameToCurrency, assetPairName, assetPairInfo) ==
    IF HasSuffix(assetPairName, ".d") THEN t
    ELSE IF ~HasKey(assetNameToCurrency, assetPairInfo.Base) THEN t
    ELSE IF ~HasKey(assetNameToCurrency, assetPairInfo.Quote) THEN t
    ELSE LET currencyPair ==
                 FormatPair(NewCurrencyPair(assetNameToCurrency[assetPairInfo.Base],
                                            assetNameToCurrency[assetPairInfo.Quote]),
                            KrakenFormat.Delimiter, KrakenFormat.Uppercase)
         IN  [t EXCEPT
                !.CurrencyPairCodeToSymbol =
                    MapSet(@, Display(currencyPair, "/", TRUE), assetPairName),
                !.CurrencyPairs = MapSet(@, Display(currencyPair, "", TRUE), currencyPair)]

\* Kraken.Run: the body of the loop over the asset pairs.
KrakenEnter(t, assetNameToCurrency, assetPairName, assetPairInfo) ==
    IF HasSuffix(assetPairName, ".d") THEN t
    ELSE IF ~HasKey(assetNameToCurrency, assetPairInfo.Base) THEN t
    ELSE IF ~HasKey(assetNameToCurrency, assetPairInfo.Quote) THEN t
    ELSE LET currencyPair ==
                 FormatPair(NewCurrencyPair(assetNameToCurrency[assetPairInfo.Base],
                                            assetNameToCurrency[assetPairInfo.Quote]),
                            KrakenFormat.Delimiter, KrakenFormat.Uppercase)
         IN  [t EXCEPT
                !.CurrencyPairCodeToSymbol =
                    MapSet(@, Display(currencyPair, "/", TRUE), assetPairName),
                !.CurrencyPairs = MapSet(@, assetPairName, currencyPair)]

RECURSIVE KrakenLoop(_, _, _)
\* Kraken.Run: the loop, over the asset pairs in the order of the range.
KrakenLoop(t, assetNameToCurrency, order) ==
    IF order = << >> THEN t
    ELSE KrakenLoop(KrakenEnter(t, assetNameToCurrency, Head(order),
                                KrakenAssetPairs[Head(order)]),
                    assetNameToCurrency, Tail(order))

\* The tables Run makes of an asset list and an asset pair list: both maps
\* made anew, then filled by the loop.
KrakenTables(assets, order) ==
    KrakenLoop([NoTables EXCEPT !.built = [assets |-> assets, assetPairs |-> order]],
               assets, order)

\* The tables of all the lists the exchange may send.
BuiltTables == {KrakenTables(assets, order) : assets \in AssetLists, order \in AssetPairOrders}

\* Kraken.Run up to the end of the loop: nothing changes when GetAssets or
\* GetAssetPairs fails, else the tables are those of the lists received.
KrakenRun ==
    /\ \E assetsErr, assetPairsErr \in BOOLEAN :
         IF assetsErr \/ assetPairsErr
         THEN tables' = tables
         ELSE tables' \in BuiltTables
    /\ out' = NoOut
    /\ UNCHANGED <<arg, Rest_, books>>

ErrUnknownPair == "failed to map currency pair to a Kraken asset pair"
ErrUnknownSymbol == "failed to map Kraken asset pair to a currency pair"

\* Mutant: a pair that is not in the table gets a symbol made of its codes.
KrakenCurrencyPairToSymbol_Guesses(t, p) ==
    LET currencyPairCode == Display(p, "/", TRUE)
    IN  IF HasKey(t.CurrencyPairCodeToSymbol, currencyPairCode)
        THEN [symbol |-> t.CurrencyPairCodeToSymbol[currencyPairCode], err |-> NoError]
        ELSE [symbol |-> Display(p, "", TRUE), err |-> NoError]

\* Kraken.CurrencyPairToSymbol
KrakenCurrencyPairToSymbol(t, p) ==
    LET currencyPairCode == Display(p, "/", TRUE)
    IN  IF HasKey(t.CurrencyPairCodeToSymbol, currencyPairCode)
        THEN [symbol |-> t.CurrencyPairCodeToSymbol[currencyPairCode], err |-> NoError]
        ELSE [symbol |-> "", err |-> ErrUnknownPair]

\* Kraken.SymbolToCurrencyPair
KrakenSymbolToCurrencyPair(t, symbol) ==
    IF HasKey(t.CurrencyPairs, symbol)
    THEN [pair |-> FormatPair(t.CurrencyPairs[symbol], KrakenFormat.Delimiter,
                              KrakenFormat.Uppercase),
          err |-> NoError]
    ELSE [pair |-> NoPair, err |-> ErrUnknownSymbol]

\* The Kraken codec on the pair drawn (there and, if there is a symbol, back)
\* and on the symbol drawn.
KrakenCodec ==
    /\ arg # NoArg
    /\ LET there == KrakenCurrencyPairToSymbol(tables, arg.pair)
       IN  out' = [op |-> "Kraken", pair |-> arg.pair, there |-> there,
                   back |-> IF there.err = NoError
                            THEN KrakenSymbolToCurrencyPair(tables, there.symbol)
                            ELSE [pair |-> NoPair, err |-> "not called"],
                   given |-> arg.symbol,
                   parsed |-> KrakenSymbolToCurrencyPair(tables, arg.symbol)]
    /\ UNCHANGED <<arg, tables, Rest_, books>>

\* Another pair and symbol are drawn.
Draw ==
    /\ arg' \in [pair : ArgPairs, symbol : ArgSymbols]
    /\ out' = NoOut
    /\ UNCHANGED <<tables, Rest_, books>>

InitCodec ==
    /\ InitBitfinex
    /\ AuthenticatedAPISupport = [a \in Adapters |-> TRUE]

NextCodec == Draw \/ BittrexCodec \/ PoloniexCodec \/ BitfinexCodec

\* A pair and a symbol are drawn for the table lookups.
DrawTable ==
    /\ arg' \in [pair : TablePairs, symbol : TableSymbols]
    /\ out' = NoOut
    /\ UNCHANGED <<tables, Rest_, books>>

NextTable == DrawTable \/ KrakenRun \/ KrakenCodec

SpecTable == InitCodec /\ [][NextTable]_vars

SpecCodec == InitCodec /\ [][NextCodec]_vars

(***************************************************************************)
(* Order normalizers                                                       *)
(***************************************************************************)
\* exchange.OrderStatus
OrderStatusActive == "active"
OrderStatusFilled == "filled"
OrderStatusAborted == "aborted"
OrderStatusUnknown == "unknown"
\* &exchange.Order{}: nothing set yet. Amounts are in the smallest unit of the
\* currency, CreatedAt is in seconds.
ZeroOrder ==
    [Status |-> "", Rate |-> 0, Side |-> "", Type |-> "",
     Amount |-> 0, FilledAmount |-> 0, RemainingAmount |-> 0, CreatedAt |-> 0]

\* The prices an exchange may report: a limit price, and an average fill price
\* that is 0 when the exchange reports none.
LimitPrices == {5}
FillPrices == {0, 7}
Sides == {"buy", "sell", "hold"}
\* The amount an order was placed for, and the parts of it an exchange may
\* report as executed or as remaining.
OriginalAmounts == {2}
PartAmounts == {0, 1}

\* The creation times an exchange may report as a decimal string of seconds
\* (empty when it reports none).
Timestamps == {"", "15", "15.75", "16.001"}
\* and in milliseconds
TimesMs == {15000, 15999, 16001}

Digits == "0123456789"
IsDigit(c) == \E d \in 1..Len(Digits) : Char(Digits, d) = c
DigitValue(c) == (CHOOSE d \in 1..Len(Digits) : Char(Digits, d) = c) - 1

RECURSIVE ParseUint(_, _)
\* The digits of s after the value acc, or -1 for a character that is no digit.
ParseUint(s, acc) ==
    IF s = "" THEN acc
    ELSE IF ~IsDigit(Char(s, 1)) THEN -1
    ELSE ParseUint(SubSeq(s, 2, Len(s)), acc * 10 + DigitValue(Char(s, 1)))

\* strconv.ParseInt(s, 10, 64) with the error dropped: 0 for a string that is
\* no integer.
ParseInt(s) ==
    LET signed == s # "" /\ Char(s, 1) \in {"+", "-"}
        digits == IF signed THEN SubSeq(s, 2, Len(s)) ELSE s
        value == IF digits = "" THEN -1 ELSE ParseUint(digits, 0)
    IN  IF value < 0 THEN 0
        ELSE IF signed /\ Char(s, 1) = "-" THEN 0 - value
        ELSE value

\* Mutant: the time is rounded to the nearest second.
DropFraction_Rounds(timestamp) ==
    LET timeParts == Split(timestamp, ".")
        whole == ParseInt(timeParts[1])
    IN  IF Len(timeParts) > 1 /\ Len(timeParts[2]) > 0
             /\ DigitValue(Char(timeParts[2], 1)) >= 5
        THEN whole + 1 ELSE whole

\* Kraken.convertOrderToExchangeOrder and Bitfinex.convertOrderToExchangeOrder:
\* the creation time, the fractional part of the timestamp dropped.
DropFraction(timestamp) ==
    LET timeParts == Split(timestamp, ".")
    IN  IF Len(timeParts) > 0 THEN ParseInt(timeParts[1]) ELSE 0

\* What a normalizer returned of a raw order: the order and the error of the
\* conversion, and whether the order is in the result of GetOrders.
Normalized(op, raw, order, err, listed) ==
    [op |-> op, raw |-> raw, order |-> order, err |-> err, listed |-> listed]

NormalizerUnchanged == UNCHANGED <<arg, tables, Rest_, books>>

\* The raw orders of Bittrex (Closed is empty or a time).
BittrexOrders ==
    [Closed : {"", "2018-03-01T12:00:00"}, Quantity : OriginalAmounts,
     QuantityRemaining : PartAmounts,
     PricePerUnit : FillPrices, Limit : LimitPrices,
     Type : {"LIMIT_BUY", "LIMIT_SELL", "MARKET_BUY"}]

\* Mutant: a closed order counts as filled whatever remains of it.
BittrexStatus_ClosedIsFilled(order) ==
    IF Len(order.Closed) > 0 THEN OrderStatusFilled ELSE OrderStatusActive

\* Bittrex.convertOrderToExchangeOrder: the status
BittrexStatus(order) ==
    IF Len(order.Closed) > 0
    THEN IF order.QuantityRemaining > 0 THEN OrderStatusAborted ELSE OrderStatusFilled
    ELSE OrderStatusActive

\* Bittrex.convertOrderToExchangeOrder: the side, left unset (and logged) for
\* a type that is neither limit buy nor limit sell.
BittrexSide(order) ==
    IF order.Type = "LIMIT_BUY" THEN OrderSideBuy
    ELSE IF order.Type = "LIMIT_SELL" THEN OrderSideSell
    ELSE ZeroOrder.Side

\* Bittrex.convertOrderToExchangeOrder
BittrexConvertOrder(order) ==
    [ZeroOrder EXCEPT
        !.Status = BittrexStatus(order),
        !.FilledAmount = order.Quantity - order.QuantityRemaining,
        !.RemainingAmount = order.QuantityRemaining,
        !.Amount = order.Quantity,
        !.Rate = IF order.PricePerUnit > 0 THEN order.PricePerUnit ELSE order.Limit,
        !.Side = BittrexSide(order)]

\* What Bittrex.GetOrder returns, raw order by raw order.
BittrexNormalized ==
    {Normalized("Bittrex", order, BittrexConvertOrder(order), NoError, TRUE) :
        order \in BittrexOrders}

\* Bittrex.GetOrder on one raw order
BittrexNormalize ==
    /\ out' \in BittrexNormalized
    /\ NormalizerUnchanged

\* The raw orders of Bitfinex.
BitfinexOrders ==
    {order \in [IsCancelled : BOOLEAN, IsLive : BOOLEAN,
                AverageExecutionPrice : FillPrices, Price : LimitPrices,
                OriginalAmount : OriginalAmounts, ExecutedAmount : PartAmounts,
                RemainingAmount : {1, 2}, Timestamp : Timestamps,
                Side : Sides, Type : {"exchange limit", "limit", "stop"}] :
        order.ExecutedAmount + order.RemainingAmount = order.OriginalAmount}

\* Bitfinex.convertOrderToExchangeOrder: the status
BitfinexStatus(order) ==
    IF order.IsCancelled THEN OrderStatusAborted
    ELSE IF order.IsLive THEN OrderStatusActive
    ELSE OrderStatusFilled

\* The rate of Bitfinex.convertOrderToExchangeOrder and of
\* Kraken.convertOrderToExchangeOrder.
AverageOrLimit(status, average, limit) ==
    IF status = OrderStatusActive THEN limit
    ELSE IF average = 0 THEN limit
    ELSE average

\* Bitfinex.convertOrderToExchangeOrder
BitfinexConvertOrder(order) ==
    [ZeroOrder EXCEPT
        !.Status = BitfinexStatus(order),
        !.Amount = order.OriginalAmount,
        !.FilledAmount = order.ExecutedAmount,
        !.RemainingAmount = order.RemainingAmount,
        !.CreatedAt = DropFraction(order.Timestamp),
        !.Rate = AverageOrLimit(BitfinexStatus(order), order.AverageExecutionPrice,
                                order.Price),
        !.Side = order.Side,
        !.Type = order.Type]

\* What Bitfinex.GetOrders returns, raw order by raw order.
BitfinexNormalized ==
    {Normalized("Bitfinex", order, BitfinexConvertOrder(order), NoError, TRUE) :
        order \in BitfinexOrders}

\* Bitfinex.GetOrders on one raw order
BitfinexNormalize ==
    /\ out' \in BitfinexNormalized
    /\ NormalizerUnchanged

\* The order statuses and types of Kraken, and the raw orders.
KrakenStatuses == {"pending", "open", "closed", "canceled", "expired"}
KrakenOrderTypeLimit == "limit"
KrakenOrders ==
    [Status : KrakenStatuses \union {"suspended"}, AvgPrice : FillPrices,
     Price : LimitPrices, Volume : OriginalAmounts,
     VolumeExecuted : PartAmounts \union OriginalAmounts,
     OpenTimestamp : Timestamps, Side : Sides,
     Type : {KrakenOrderTypeLimit, "market"}]
ErrUnsupportedStatus == "unsupported order with status"
ErrUnsupportedType == "unsupported order with type"
NoOrder == [ZeroOrder EXCEPT !.Status = "<nil>"]

\* Kraken.convertOrderToExchangeOrder: the status, or none
KrakenStatus(order) ==
    IF order.Status \in {"pending", "open"} THEN OrderStatusActive
    ELSE IF order.Status \in {"canceled", "expired"} THEN OrderStatusAborted
    ELSE IF order.Status = "closed" THEN OrderStatusFilled
    ELSE ""

\* Kraken.convertOrderToExchangeOrder
KrakenConvertOrder(order) ==
    IF KrakenStatus(order) = ""
    THEN [order |-> NoOrder, err |-> ErrUnsupportedStatus]
    ELSE IF order.Type # KrakenOrderTypeLimit
    THEN [order |-> NoOrder, err |-> ErrUnsupportedType]
    ELSE [order |-> [ZeroOrder EXCEPT
                        !.Status = KrakenStatus(order),
                        !.Amount = order.Volume,
                        !.FilledAmount = order.VolumeExecuted,
                        !.RemainingAmount = order.Volume - order.VolumeExecuted,
                        !.CreatedAt = DropFraction(order.OpenTimestamp),
                        !.Rate = AverageOrLimit(KrakenStatus(order), order.AvgPrice,
                                                order.Price),
                        !.Side = order.Side,
                        !.Type = OrderTypeExchangeLimit],
          err |-> NoError]

\* What Kraken.GetOrders returns, raw order by raw order.
KrakenNormalized ==
    {LET c == KrakenConvertOrder(order)
     IN  Normalized("Kraken", order, c.order, c.err, c.err = NoError) :
        order \in KrakenOrders}

\* Kraken.GetOrders on one raw order: an order that does not convert is
\* logged and left out of the result.
KrakenNormalize ==
    /\ out' \in KrakenNormalized
    /\ NormalizerUnchanged

\* The order statuses and types of Binance, and the raw orders.
BinanceStatuses == {"NEW", "PARTIALLY_FILLED", "FILLED", "CANCELED", "PENDING_CANCEL",
                    "REJECTED", "EXPIRED", "REPLACED"}
BinanceOrderTypeLimit == "LIMIT"
MsPerSecond == 1000
BinanceOrders ==
    [Status : BinanceStatuses \union {"HALTED"}, IsWorking : BOOLEAN,
     Price : LimitPrices, OrigQty : OriginalAmounts, ExecutedQty : PartAmounts,
     Time : TimesMs, Side : {"BUY", "SELL", "HOLD"},
     Type : {BinanceOrderTypeLimit, "MARKET"}]

\* Binance.convertOrderToExchangeOrder: the status
BinanceStatus(order) ==
    IF order.Status \in {"CANCELED", "EXPIRED", "REJECTED", "REPLACED"}
    THEN OrderStatusAborted
    ELSE IF order.Status = "FILLED" THEN OrderStatusFilled
    ELSE IF order.IsWorking THEN OrderStatusActive
    ELSE OrderStatusUnknown

\* Mutant: the time is rounded to the nearest second.
BinanceCreatedAt_Rounds(order) == (order.Time + 500) \div MsPerSecond

\* Binance.convertOrderToExchangeOrder: the creation time, from milliseconds
\* to seconds by the division of integers.
BinanceCreatedAt(order) == order.Time \div MsPerSecond

\* Binance.convertOrderToExchangeOrder
BinanceConvertOrder(order) ==
    [ZeroOrder EXCEPT
        !.Status = BinanceStatus(order),
        !.Amount = order.OrigQty,
        !.FilledAmount = order.ExecutedQty,
        !.RemainingAmount = order.OrigQty - order.ExecutedQty,
        !.Rate = order.Price,
        !.CreatedAt = BinanceCreatedAt(order),
        !.Side = Lower(order.Side),
        !.Type = IF order.Type = BinanceOrderTypeLimit
                 THEN OrderTypeExchangeLimit ELSE ZeroOrder.Type]

\* What Binance.GetOrders returns, raw order by raw order.
BinanceNormalized ==
    {Normalized("Binance", order, BinanceConvertOrder(order), NoError, TRUE) :
        order \in BinanceOrders}

\* Binance.GetOrders on one raw order
BinanceNormalize ==
    /\ out' \in BinanceNormalized
    /\ NormalizerUnchanged

\* The order statuses of Liqui, and the raw orders.
LiquiStatuses == 0..3
\* StartAmount is the amount the order was placed for, which only GetOrder
\* reports (0 otherwise); Amount is what remains of it.
LiquiOrders ==
    [Status : LiquiStatuses \union {4}, Rate : LimitPrices, Type : Sides,
     StartAmount : OriginalAmounts \union {0}, Amount : {1, 2}]

\* Liqui.convertOrderToExchangeOrder: the status, which no case sets for a
\* status that is none of 0 to 3
LiquiStatus(order) ==
    IF order.Status = 0 THEN OrderStatusActive
    ELSE IF order.Status = 1 THEN OrderStatusFilled
    ELSE IF order.Status \in {2, 3} THEN OrderStatusAborted
    ELSE ZeroOrder.Status

\* Liqui.convertOrderToExchangeOrder
LiquiConvertOrder(order) ==
    [ZeroOrder EXCEPT
        !.Status = LiquiStatus(order),
        !.Amount = IF order.StartAmount # 0 THEN order.StartAmount ELSE order.Amount,
        !.FilledAmount = IF order.StartAmount # 0
                         THEN order.StartAmount - order.Amount
                         ELSE ZeroOrder.FilledAmount,
        !.RemainingAmount = IF order.StartAmount # 0 THEN order.Amount
                            ELSE ZeroOrder.RemainingAmount,
        !.Rate = order.Rate,
        !.Side = order.Type]

\* What Liqui.GetOrders returns, raw order by raw order.
LiquiNormalized ==
    {Normalized("Liqui", order, LiquiConvertOrder(order), NoError, TRUE) :
        order \in LiquiOrders}

\* Liqui.GetOrders on one raw order
LiquiNormalize ==
    /\ out' \in LiquiNormalized
    /\ NormalizerUnchanged

\* The raw open orders of Poloniex: Total is taken as the filled amount.
PoloniexOrders ==
    [Amount : OriginalAmounts, Total : PartAmounts, Rate : LimitPrices, Type : Sides]

\* Poloniex.convertOrderToExchangeOrder
PoloniexConvertOrder(order) ==
    [ZeroOrder EXCEPT
        !.Status = OrderStatusActive,
        !.FilledAmount = order.Total,
        !.RemainingAmount = order.Amount - order.Total,
        !.Amount = order.Amount,
        !.Rate = order.Rate,
        !.Side = order.Type]

\* What Poloniex.GetOrders returns, raw order by raw order.
PoloniexNormalized ==
    {Normalized("Poloniex", order, PoloniexConvertOrder(order), NoError, TRUE) :
        order \in PoloniexOrders}

\* Poloniex.GetOrders on one raw order
PoloniexNormalize ==
    /\ out' \in PoloniexNormalized
    /\ NormalizerUnchanged

NextNormalizer ==
    \/ BittrexNormalize \/ BitfinexNormalize \/ KrakenNormalize
    \/ BinanceNormalize \/ LiquiNormalize \/ PoloniexNormalize

SpecNormalizer == InitCodec /\ [][NextNormalizer]_vars

(***************************************************************************)
(* The request functions on one response of the exchange                   *)
(***************************************************************************)
ErrUnmarshalErrorInfo == "failed to unmarshal error info"

\* The responses of Binance: no response, a 2xx response whose body decodes
\* into the result or is not JSON, and a response of another status whose body
\* is the error info {code, msg} of the exchange or is not JSON.
BinanceResponses ==
    {NoResponse}
    \cup [transportOK : {TRUE}, status : {200}, body : {Data("V1"), Body("garbage")}]
    \cup [transportOK : {TRUE}, status : {400, 429},
          body : {Body("errinfo"), Body("garbage")}]

\* Binance.SendAuthenticatedHTTPRequest: the error it returns and the value
\* left in result.
BinanceSendAuthenticatedHTTPRequest(auth, resp, old) ==
    IF ~auth THEN [err |-> ErrNoCredentials, result |-> old]
    ELSE IF ~resp.transportOK THEN [err |-> ErrTransport, result |-> old]
    ELSE IF 200 <= resp.status /\ resp.status <= 299
         THEN IF resp.body.kind = "data"
              THEN [err |-> NoError, result |-> resp.body.val]
              ELSE [err |-> ErrUnmarshal, result |-> old]
    ELSE IF resp.body.kind = "garbage"
         THEN [err |-> ErrUnmarshalErrorInfo, result |-> old]
    ELSE [err |-> NoError, result |-> old]

\* What a request function returned for one response.
Answered(op, resp, old, r) ==
    [op |-> op, auth |-> TRUE, resp |-> resp, old |-> old, err |-> r.err,
     result |-> r.result]
\* and without credentials, when no request is sent
Refused(op, old) ==
    [op |-> op, auth |-> FALSE, resp |-> NoResponse, old |-> old,
     err |-> ErrNoCredentials, result |-> old]

\* The credentials of the adapter; Binance is set up as Bitfinex is (Init sets
\* every adapter up alike).
Configured(op) == AuthenticatedAPISupport[IF op = "Bittrex.HTTPRequest" THEN "Bittrex" ELSE "Bitfinex"]

\* One call of a request function f(auth, resp, old) with the responses given.
Request(op, responses, f(_, _, _)) ==
    /\ \E old \in Values :
         IF ~Configured(op)
         THEN out' = Refused(op, old)
         ELSE \E resp \in responses : out' = Answered(op, resp, old, f(TRUE, resp, old))
    /\ NormalizerUnchanged

BinanceSend == Request("Binance.Send", BinanceResponses, BinanceSendAuthenticatedHTTPRequest)

BitfinexV1(auth, resp, old) == ClassifyV1(resp, old)
BitfinexV2(auth, resp, old) == ClassifyV2(resp, old)
\* Bitfinex.SendAuthenticatedHTTPRequest and SendAuthenticatedHTTPRequest2
BitfinexSend == Request("Bitfinex.Send", Responses, BitfinexV1)
BitfinexSend2 == Request("Bitfinex.Send2", Responses, BitfinexV2)

\* Bittrex.HTTPRequest over HTTPRequestJSON
BittrexJSON(auth, resp, old) ==
    [err |-> BittrexHTTPRequest(resp.body.kind),
     result |-> IF BittrexHTTPRequest(resp.body.kind) = NoError THEN "V1" ELSE old]
BittrexSend ==
    Request("Bittrex.HTTPRequest",
            {[transportOK |-> k # "transport", status |-> 200, body |-> Body(k)] :
                k \in BittrexResponses},
            BittrexJSON)

NextRequest == BinanceSend \/ BitfinexSend \/ BitfinexSend2 \/ BittrexSend

SpecRequest == Init /\ [][NextRequest]_vars

(***************************************************************************)
(* Claims about the dispatcher (specification Spec)                        *)
(***************************************************************************)
\* The errors of a call that was let through without a request reaching the
\* exchange: the caller's API version is unknown, or no credentials are set.
NotSendable == {ErrInvalidAPIVersion, ErrNoCredentials}

\* C1: a dispatch issued while no ban is active and fewer than 60000/q ms
\* (integer division) after the last successful call on its key performs no
\* network call, writes the caller's fallback value (a non-nil defaultValue)
\* into the result and returns the RateLimited warning.
C1_ThrottledCallSkipped ==
    (ret.op = "Dispatch" /\ ret.pre = "throttled" /\ ret.dv # NilValue)
        => /\ ~ret.attempted
           /\ ~ret.sent
           /\ ret.result = ret.dv
           /\ ret.err = WarningHTTPRequestRateLimited

\* C1 witness: with quota 60/min, the second of two calls 500 ms apart on one
\* key was skipped and got the fallback.
C1_Witness ==
    /\ ret.op = "Dispatch" /\ ret.q = 60 /\ ret.pre = "throttled"
    /\ lastSuccess[ret.key] # 0 /\ now = lastSuccess[ret.key] + 500
    /\ ~ret.sent /\ ret.result = "D1" /\ ret.err = WarningHTTPRequestRateLimited

\* C2: after a throttle signal on a key, every dispatch on that key less than
\* 60000 ms after the throttled call is skipped without a network call and
\* returns the fallback with RateLimited, and the first dispatch on that key
\* once the window has expired is let through to the network again.
C2_BanWindowThenRetry ==
    /\ (ret.op = "Dispatch" /\ ret.phase = "window" /\ ret.dv # NilValue)
          => /\ ~ret.attempted
             /\ ~ret.sent
             /\ ret.result = ret.dv
             /\ ret.err = WarningHTTPRequestRateLimited
    /\ (ret.op = "Dispatch" /\ ret.phase = "first")
          => /\ ret.attempted
             /\ (ret.netErr \notin NotSendable => ret.sent)

\* C2 witness: calls on the key inside the window were made and skipped, and
\* the first call after the window went to the exchange.
C2_Witness ==
    /\ ret.op = "Dispatch" /\ ret.phase = "first" /\ ret.sent
    /\ throttle.skipped /\ throttle.retried /\ now >= throttle.at + 60000

\* C4: a dispatch in the Ready state (no active ban, at least 60000/q ms since
\* the last successful call) is let through to the network, and when the
\* exchange serves it the dispatcher records the call's timestamp as the key's
\* last-call time, clears the ban marker and returns the fresh response with
\* no RateLimited signal.
C4_ReadyCallPerformed ==
    (ret.op = "Dispatch" /\ ret.pre = "ready")
        => /\ ret.attempted
           /\ (ret.netErr \notin NotSendable => ret.sent)
           /\ (ret.fresh # "none"
                 => /\ rateLimits[ret.key] = now
                    /\ ipBanStartTime = 0
                    /\ ret.result = ret.fresh
                    /\ ret.err = NoError)

\* C4 witness: a served call that cleared the marker of an expired ban.
C4_Witness ==
    /\ ret.op = "Dispatch" /\ ret.pre = "ready" /\ ret.fresh = "V2"
    /\ ret.phase = "first" /\ throttle.at # 0
    /\ ipBanStartTime = 0 /\ rateLimits[ret.key] = now

\* C5: when the network call fails with an error other than the throttle
\* signal, the dispatcher returns exactly that error, leaves the last-call
\* times and the ban marker as they were, and does not put the fallback into
\* the result.
C5_OtherErrorPropagated ==
    [][(ret'.op = "Dispatch" /\ ret'.attempted
        /\ ret'.netErr \notin {NoError, errRateLimit})
          => /\ ret'.err = ret'.netErr
             /\ rateLimits' = rateLimits
             /\ ipBanStartTime' = ipBanStartTime
             /\ ret'.result = "V0"]_vars

\* C5 witness: a request failed in transport while a last-call time and the
\* marker of an expired ban were recorded.
C5_Witness ==
    /\ ret.op = "Dispatch" /\ ret.sent /\ ret.netErr = ErrTransport
    /\ ret.err = ErrTransport /\ ret.dv = "D1" /\ ret.result = "V0"
    /\ ipBanStartTime # 0 /\ rateLimits[ret.key] # 0

\* C29: while the ban of a throttle signal received on one key lasts, a
\* dispatch on another key is skipped without a network call and returns the
\* fallback with RateLimited; and a call that the exchange serves, on whatever
\* key, leaves no ban on any key.
C29_BanIsGlobal ==
    /\ (/\ ret.op = "Dispatch" /\ ret.pre = "banned"
        /\ ret.key # throttle.key /\ ret.dv # NilValue)
          => /\ ~ret.attempted
             /\ ~ret.sent
             /\ ret.result = ret.dv
             /\ ret.err = WarningHTTPRequestRateLimited
    /\ (ret.op = "Dispatch" /\ ret.fresh # "none")
          => /\ ipBanStartTime = 0
             /\ \A t \in Times : ~IPBanned(t, ipBanStartTime)

\* C29 witness: a call on a key that was never served, skipped 1000 ms after
\* the throttle signal on the other key.
C29_Witness ==
    /\ ret.op = "Dispatch" /\ ret.pre = "banned" /\ ret.key # throttle.key
    /\ throttle.at # 0 /\ now = throttle.at + 1000 /\ lastSuccess[ret.key] = 0
    /\ ~ret.sent /\ ret.result = "D1" /\ ret.err = WarningHTTPRequestRateLimited

\* C32: a dispatch that the exchange serves comes at least 60000/q ms after
\* the served call before it on the same key, and no request reaches the
\* exchange on any key while a ban is active.
C32_ServedCallsSpacedOut ==
    ret.op = "Dispatch"
        => /\ (ret.sent /\ ret.netErr = NoError /\ ret.last # 0)
                 => now - ret.last >= MinuteMs \div ret.q
           /\ ret.pre = "banned" => ~ret.sent

\* C32 witness: with quota 10/min a call is served 6000 ms after the served
\* call before it on the key.
C32_Witness ==
    /\ ret.op = "Dispatch" /\ ret.q = 10 /\ ret.fresh # "none"
    /\ ret.last = StartTime /\ now = StartTime + 6000

(***************************************************************************)
(* Claims about the adapter methods                                        *)
(***************************************************************************)
\* C3: on one key with quota 10/min and the cache at V0: call 1 at t = 0 is
\* performed and, served V1, returns V1 and leaves the cache at V1; call 2 at
\* t = 1000 ms is skipped and returns V1 with RateLimited; call 3 at
\* t = 6000 ms is performed and, served V2, returns V2.
C3_Scenario ==
    /\ (Len(log) >= 1 /\ log[1].t = StartTime)
          => /\ log[1].attempted
             /\ (AuthenticatedAPISupport["Bitfinex"] => log[1].sent)
             /\ (log[1].fresh = "V1"
                   => /\ log[1].result = "V1" /\ log[1].err = NoError
                      /\ (Len(log) = 1 => lastActiveOrders = "V1"))
    /\ (Len(log) >= 2 /\ log[1].t = StartTime /\ log[1].fresh = "V1"
        /\ log[2].t = StartTime + 1000)
          => /\ ~log[2].attempted /\ ~log[2].sent
             /\ log[2].result = "V1"
             /\ log[2].err = WarningHTTPRequestRateLimited
    /\ (Len(log) >= 3 /\ log[1].t = StartTime /\ log[1].fresh = "V1"
        /\ log[2].t = StartTime + 1000 /\ log[3].t = StartTime + 6000)
          => /\ log[3].attempted /\ log[3].sent
             /\ (log[3].fresh = "V2"
                   => log[3].result = "V2" /\ log[3].err = NoError)

\* C3 witness: the three calls of the scenario, made and answered as it says.
C3_Witness ==
    /\ Len(log) = 3 /\ QuotaOrders = 10
    /\ log[1].t = StartTime /\ log[1].fresh = "V1" /\ log[1].result = "V1"
    /\ log[2].t = StartTime + 1000 /\ ~log[2].sent /\ log[2].result = "V1"
    /\ log[2].err = WarningHTTPRequestRateLimited
    /\ log[3].t = StartTime + 6000 /\ log[3].fresh = "V2" /\ log[3].result = "V2"
    /\ lastActiveOrders = "V2"

\* C6: whenever the dispatcher returns the RateLimited signal (and it does
\* when the call is throttled, banned or has just received the throttle
\* error), the result equals the fallback the caller supplied, and
\* GetAccountBalance, GetActiveOrders and GetOrders return that fallback data
\* together with the RateLimited signal.
C6_RateLimitedCarriesFallback ==
    ret.op \in {"GetAccountBalance", "GetActiveOrders", "GetOrders"}
        => /\ (ret.pre \in {"throttled", "banned"} \/ ret.netErr = errRateLimit)
                 => ret.err = WarningHTTPRequestRateLimited
           /\ ret.err = WarningHTTPRequestRateLimited
                 => /\ ret.result = ret.dv
                    /\ ret.mErr = WarningHTTPRequestRateLimited
                    /\ ret.mData = IF ret.op = "GetOrders"
                                   THEN ConvertOrders(ret.dv) ELSE ret.dv

\* C6 witness: GetOrders has just received the throttle error and returns the
\* orders of the last good response with the RateLimited signal.
C6_Witness ==
    /\ ret.op = "GetOrders" /\ ret.netErr = errRateLimit
    /\ ret.mErr = WarningHTTPRequestRateLimited
    /\ ret.dv = "V1" /\ ret.mData = "E1"

\* C30: lastBalances starts as the empty list and every step leaves in it the
\* response of the GetAccountBalance call the exchange has just served, or
\* else what it held: calls that are throttled, banned or fail do not change
\* it.  The same holds of lastActiveOrders under GetActiveOrders and GetOrders.
C30_CacheIsLastSuccess ==
    /\ lastBalances = "V0" /\ lastActiveOrders = "V0"
    /\ [][/\ lastBalances' =
                IF ret'.op = "GetAccountBalance" /\ ret'.fresh # "none"
                THEN ret'.fresh ELSE lastBalances
          /\ lastActiveOrders' =
                IF ret'.op \in {"GetActiveOrders", "GetOrders"} /\ ret'.fresh # "none"
                THEN ret'.fresh ELSE lastActiveOrders]_vars

\* C30 witness: GetActiveOrders failed in transport after it had been served
\* V1, and the cache still holds V1.
C30_Witness ==
    /\ ret.op = "GetActiveOrders" /\ ret.sent /\ ret.netErr = ErrTransport
    /\ ret.dv = "V1" /\ lastActiveOrders = "V1" /\ ret.mData = "V0"

\* C31: a call of a method built on the dispatcher that is skipped right after
\* a call of the same method was served returns the payload of that call.
C31_FallbackIsLastGood ==
    [][(/\ ret.op \in {"GetAccountBalance", "GetActiveOrders", "CalcAvailableBalance"}
        /\ ret.fresh # "none"
        /\ ret'.op = ret.op /\ ret'.pre \in {"throttled", "banned"})
          => ret'.mData = ret.fresh]_vars

\* C7: in every state of the rate limiter, NewOrder either sends the order
\* request to the exchange or returns a hard error, and never returns the
\* RateLimited signal.
C7_PlacementNeverRateLimited ==
    ret.op \in {"NewOrder", "BittrexNewOrder"}
        => /\ ret.mErr # WarningHTTPRequestRateLimited
           /\ (ret.sent \/ ret.mErr # NoError)
           /\ (ret.mErr = NoError => ret.fresh # "none")

\* C7 witness: an order was sent and served while the adapter was banned.
C7_Witness ==
    /\ ret.op = "NewOrder" /\ ret.pre = "banned" /\ ret.sent
    /\ ret.mErr = NoError /\ ret.mData = "id:V1"
    /\ ipBanStartTime # 0

(***************************************************************************)
(* Claims about the nonce (specification SpecNonce)                        *)
(***************************************************************************)
\* C8: for each adapter instance, the nonce of each signed request is strictly
\* greater than the nonce of every earlier request: the call that finds the
\* counter unset seeds it from the clock, every later call increments it.
C8_NonceStrictlyIncreasing ==
    \A a \in Adapters :
        /\ \A i, j \in 1..Len(nonceLog[a]) :
               i < j => nonceLog[a][i].nonce < nonceLog[a][j].nonce
        /\ \A i \in 1..Len(nonceLog[a]) :
               LET e == nonceLog[a][i]
               IN  IF e.before = 0 THEN e.nonce = e.clock
                                   ELSE e.nonce = e.before + 1
        /\ (Len(nonceLog[a]) > 0 => Nonce[a] >= nonceLog[a][Len(nonceLog[a])].nonce)

\* C8 witness: three signed requests of one adapter, the last one made after
\* the clock has advanced past the nonce of the first.
C8_Witness ==
    \E a \in Adapters :
        /\ Len(nonceLog[a]) = 3
        /\ nonceLog[a][1].before = 0
        /\ nonceLog[a][2].clock = nonceLog[a][1].clock
        /\ nonceLog[a][3].clock > nonceLog[a][1].clock

(***************************************************************************)
(* Claims about the order book store (specification SpecOrderbook)         *)
(***************************************************************************)
\* C9: under any interleaving of GetOrderbook and ProcessOrderbook calls, the
\* snapshot a GetOrderbook returns has the bids, the asks and the time stamp
\* of one ProcessOrderbook call, and it is the snapshot its key had when the
\* call began or one put there while the call ran.
C9_SnapshotNeverMixed ==
    \A g \in Goroutines :
        (proc[g].op = "GetOrderbook" /\ proc[g].pc = "done" /\ proc[g].err = NoError)
            => /\ proc[g].book.Bids = proc[g].book.Asks
               /\ proc[g].book.Asks = proc[g].book.LastUpdated
               /\ proc[g].book.Bids \in proc[g].seen

\* C9 witness: a GetOrderbook ran while a ProcessOrderbook replaced the snapshot
\* of its key, and returned the new one whole.
C9_Witness ==
    \E g \in Goroutines :
        /\ proc[g].op = "GetOrderbook" /\ proc[g].pc = "done" /\ proc[g].err = NoError
        /\ proc[g].seen = {1, 2}
        /\ proc[g].book = [Bids |-> 2, Asks |-> 2, LastUpdated |-> 2]

\* C10: GetOrderbook returns an error, and never an empty snapshot with a nil
\* error, for a pair and market type that no ProcessOrderbook call has
\* populated, the other market type of a populated pair included.
C10_NotFoundWhenUnpopulated ==
    \A g \in Goroutines :
        (proc[g].op = "GetOrderbook" /\ proc[g].pc = "done" /\ proc[g].seen = {0})
            => proc[g].err # NoError

\* A ProcessOrderbook call is in the middle of assigning the Base of key k.
Storing(k) ==
    \E g \in Goroutines :
        /\ proc[g].op = "ProcessOrderbook" /\ proc[g].key = k
        /\ proc[g].pc \in {"Asks", "LastUpdated"}

\* C11: the store holds for each (pair, market type) exactly the bids and asks
\* of the most recent ProcessOrderbook call for that key (nothing of an earlier
\* snapshot, whatever was put to other pairs or market types), and a
\* GetOrderbook that no put to its key overlaps returns them.
C11_LastPutWins ==
    /\ \A k \in BookKeys :
          ~Storing(k) => /\ Lookup(orderbooks, k).Bids = committed[k]
                         /\ Lookup(orderbooks, k).Asks = committed[k]
    /\ \A g \in Goroutines : \A n \in 1..(MaxPuts + 1) :
          (proc[g].op = "GetOrderbook" /\ proc[g].pc = "done" /\ proc[g].seen = {n})
              => /\ proc[g].err = NoError
                 /\ proc[g].book.Bids = n /\ proc[g].book.Asks = n

\* C11 witness: two puts to one key and none to any other; a GetOrderbook
\* made after the second returns the second.
C11_Witness ==
    \E g \in Goroutines :
        /\ proc[g].op = "GetOrderbook" /\ proc[g].pc = "done" /\ proc[g].seen = {2}
        /\ proc[g].book.Bids = 2 /\ puts = 2
        /\ \A k \in BookKeys \ {proc[g].key} : committed[k] = 0

(***************************************************************************)
(* Claims about the symbol codecs (specification SpecCodec)                *)
(***************************************************************************)
\* C12: for the inverted codecs with a delimiter (Bittrex "-", Poloniex "_"),
\* the symbol of the pair (base, quote) is the upper case quote, the delimiter
\* and the upper case base, and the pair of that symbol is (base, quote) again.
C12_InvertedRoundTrip ==
    out.op \in {"Bittrex", "Poloniex"}
        => /\ out.symbol = Upper(out.pair.SecondCurrency) \o out.format.Delimiter
                              \o Upper(out.pair.FirstCurrency)
           /\ out.back = CurrencyPair(Upper(out.pair.FirstCurrency),
                                      Upper(out.pair.SecondCurrency))
           /\ (Upper(out.pair.FirstCurrency) = out.pair.FirstCurrency
               /\ Upper(out.pair.SecondCurrency) = out.pair.SecondCurrency)
                 => out.back = out.pair

\* C12 witness: Bittrex maps (ETH, BTC) to "BTC-ETH" and back to (ETH, BTC).
C12_Witness ==
    /\ out.op = "Bittrex" /\ out.pair = CurrencyPair("ETH", "BTC")
    /\ out.symbol = "BTC-ETH" /\ out.back = CurrencyPair("ETH", "BTC")

\* C13: for the fixed-width codec (Bitfinex), the pair of the symbol of every
\* pair p, also of one whose currency codes are not both three characters
\* long, is returned without error and is p.
C13_FixedWidthRoundTrip ==
    (/\ out.op = "Bitfinex"
     /\ Upper(out.pair.FirstCurrency) = out.pair.FirstCurrency
     /\ Upper(out.pair.SecondCurrency) = out.pair.SecondCurrency)
        => out.back.err = NoError /\ out.back.pair = out.pair

\* C14: the fixed-width SymbolToCurrencyPair returns an error and no pair for
\* every symbol whose length is not 6, and for a symbol of length 6 the pair of
\* its characters 1-3 and 4-6 (in upper case).
C14_FixedWidthSplit ==
    out.op = "Bitfinex"
        => IF Len(out.given) # 6
           THEN out.parsed.err # NoError /\ out.parsed.pair = NoPair
           ELSE /\ out.parsed.err = NoError
                /\ out.parsed.pair = CurrencyPair(Upper(SubSeq(out.given, 1, 3)),
                                                  Upper(SubSeq(out.given, 4, 6)))

\* C14 witness: "BTCUSD" has been split into (BTC, USD), and "DASHBTC", the
\* symbol of (DASH, BTC) and seven characters long, has been refused.
C14_Witness ==
    /\ out.op = "Bitfinex" /\ out.given = "BTCUSD"
    /\ out.parsed = [pair |-> CurrencyPair("BTC", "USD"), err |-> NoError]
    /\ out.symbol = "DASHBTC" /\ out.back = [pair |-> NoPair, err |-> ErrSymbolLength]

(***************************************************************************)
(* Claims about the table codec (specification SpecTable)                  *)
(***************************************************************************)
\* The asset pairs of the list the tables were built of that are no dark pool
\* pairs and whose two assets the asset list knows.
Listed ==
    {i \in 1..Len(tables.built.assetPairs) :
        LET name == tables.built.assetPairs[i]
        IN  /\ ~HasSuffix(name, ".d")
            /\ KrakenAssetPairs[name].Base \in DOMAIN tables.built.assets
            /\ KrakenAssetPairs[name].Quote \in DOMAIN tables.built.assets}
ListedCode(i) ==
    LET info == KrakenAssetPairs[tables.built.assetPairs[i]]
    IN  Upper(tables.built.assets[info.Base]) \o "/" \o Upper(tables.built.assets[info.Quote])
PairEntered(p) ==
    \E i \in Listed : ListedCode(i) = Upper(p.FirstCurrency) \o "/" \o Upper(p.SecondCurrency)
SymbolEntered(symbol) == \E i \in Listed : tables.built.assetPairs[i] = symbol

\* C15: the table codec (Kraken) returns an error, and neither a symbol nor a
\* pair, for every pair and every symbol that Run did not enter into the
\* tables, which before Run is every pair and symbol; what it does return
\* was entered.
C15_UnknownMarketIsAnError ==
    out.op = "Kraken"
        => /\ ~PairEntered(out.pair)
                 => out.there.err # NoError /\ out.there.symbol = ""
           /\ ~SymbolEntered(out.given)
                 => out.parsed.err # NoError /\ out.parsed.pair = NoPair
           /\ out.there.err = NoError => SymbolEntered(out.there.symbol)

\* C15 witness: with tables built of a list that has XXBTZUSD and its dark
\* pool twin, (BTC, USD) and "XXBTZUSD.d" are both refused.
C15_Witness ==
    /\ out.op = "Kraken" /\ "XXBTZUSD" \in DOMAIN tables.CurrencyPairs
    /\ \E i \in 1..Len(tables.built.assetPairs) : tables.built.assetPairs[i] = "XXBTZUSD.d"
    /\ out.pair = CurrencyPair("BTC", "USD") /\ out.there.err = ErrUnknownPair
    /\ out.given = "XXBTZUSD.d" /\ out.parsed.err = ErrUnknownSymbol

\* C16: after Run, every symbol the pair-to-symbol table holds is in the
\* symbol-to-pair table and maps to the pair of that code there, so that
\* SymbolToCurrencyPair(CurrencyPairToSymbol(p)) = p whenever
\* CurrencyPairToSymbol(p) succeeds.
C16_TablesAgree ==
    /\ \A code \in DOMAIN tables.CurrencyPairCodeToSymbol :
          LET symbol == tables.CurrencyPairCodeToSymbol[code]
          IN  /\ symbol \in DOMAIN tables.CurrencyPairs
              /\ Display(tables.CurrencyPairs[symbol], "/", TRUE) = code
    /\ (out.op = "Kraken" /\ out.there.err = NoError)
          => /\ out.back.err = NoError
             /\ out.back.pair = CurrencyPair(Upper(out.pair.FirstCurrency),
                                             Upper(out.pair.SecondCurrency))

\* C16 witness: two listed asset pairs have the code XBT/USD; the table holds
\* the one visited last, and (XBT, USD) comes back from it.
C16_Witness ==
    /\ out.op = "Kraken" /\ out.pair = CurrencyPair("XBT", "USD")
    /\ {"XXBTZUSD", "XBTUSD"} \subseteq DOMAIN tables.CurrencyPairs
    /\ out.there.symbol = "XBTUSD" /\ out.back.pair = out.pair

(***************************************************************************)
(* Claims about the order normalizers (specification SpecNormalizer)       *)
(***************************************************************************)
\* C17: the Bittrex normalizer gives a raw order with a non-empty Closed field
\* the status filled when nothing remains of it and aborted when something
\* remains, and a raw order with an empty Closed field the status active.
C17_BittrexStatus ==
    out.op = "Bittrex"
        => out.order.Status =
              IF out.raw.Closed = "" THEN OrderStatusActive
              ELSE IF out.raw.QuantityRemaining = 0 THEN OrderStatusFilled
              ELSE OrderStatusAborted

\* C17 witness: a closed order of which 1 remains has become aborted.
C17_Witness ==
    /\ out.op = "Bittrex" /\ out.raw.Closed # "" /\ out.raw.QuantityRemaining = 1
    /\ out.order.Status = OrderStatusAborted

\* The raw statuses the adapters know.
Recognized(op) ==
    IF op = "Binance" THEN BinanceStatuses
    ELSE IF op = "Kraken" THEN KrakenStatuses
    ELSE LiquiStatuses

\* C18: in the normalizers of Binance, Kraken and Liqui a raw order with a
\* status outside the vocabulary of the adapter is in the result of GetOrders,
\* without error, with the status unknown; and the status of every canonical
\* order is active, filled, aborted or unknown.
C18_UnknownStatusKept ==
    out.op \in {"Binance", "Kraken", "Liqui"}
        => /\ out.raw.Status \notin Recognized(out.op)
                 => /\ out.listed /\ out.err = NoError
                    /\ out.order.Status = OrderStatusUnknown
           /\ out.listed
                 => out.order.Status \in {OrderStatusActive, OrderStatusFilled,
                                          OrderStatusAborted, OrderStatusUnknown}

\* The sides and types the canonical order knows.
CanonicalSides == {OrderSideBuy, OrderSideSell}
CanonicalTypes == {OrderTypeExchangeLimit, OrderTypeMarginLimit}

\* C19: a raw order whose side or type the adapter does not know makes the
\* normalization fail with an error: no order is returned whose side is
\* neither buy nor sell, or whose type is set and is no canonical type.
C19_UnknownSideOrTypeFails ==
    (out.op \in {"Bittrex", "Kraken", "Binance"} /\ out.err = NoError)
        => /\ out.order.Side \in CanonicalSides
           /\ (out.op # "Bittrex" => out.order.Type \in CanonicalTypes)

\* C20: in the normalizers of Bitfinex, Kraken and Bittrex an order that
\* becomes active gets the limit price as its rate even when the average fill
\* price is not zero; another order gets the average fill price when that is
\* not zero, the limit price otherwise.
C20_RateOfOrder ==
    (out.op \in {"Bitfinex", "Kraken", "Bittrex"} /\ out.err = NoError)
        => LET average == IF out.op = "Bitfinex" THEN out.raw.AverageExecutionPrice
                          ELSE IF out.op = "Kraken" THEN out.raw.AvgPrice
                          ELSE out.raw.PricePerUnit
               limit == IF out.op = "Bittrex" THEN out.raw.Limit ELSE out.raw.Price
           IN  out.order.Rate =
                   IF out.order.Status = OrderStatusActive THEN limit
                   ELSE IF average # 0 THEN average ELSE limit

\* C21: every canonical order a normalizer returns has filled and remaining
\* amounts that add up to its amount, a Liqui order without StartAmount
\* included.
C21_AmountsAddUp ==
    (out.op \in {"Bittrex", "Liqui", "Binance", "Kraken", "Poloniex", "Bitfinex"}
     /\ out.err = NoError)
        => out.order.FilledAmount + out.order.RemainingAmount = out.order.Amount

\* The decimal timestamps in milliseconds.
TimestampMs(timestamp) ==
    CASE timestamp = "15" -> 15000
      [] timestamp = "15.75" -> 15750
      [] timestamp = "16.001" -> 16001

\* C22: the creation time of a canonical order of Binance, Kraken and Bitfinex
\* is the raw creation time truncated to whole seconds: it is never after the
\* raw time and less than a second before it.
C22_CreatedAtTruncated ==
    (out.op \in {"Binance", "Kraken", "Bitfinex"} /\ out.err = NoError)
        => LET raw == IF out.op = "Binance" THEN out.raw.Time
                      ELSE IF out.op = "Kraken"
                      THEN (IF out.raw.OpenTimestamp = "" THEN 0
                            ELSE TimestampMs(out.raw.OpenTimestamp))
                      ELSE IF out.raw.Timestamp = "" THEN 0
                      ELSE TimestampMs(out.raw.Timestamp)
           IN  /\ out.order.CreatedAt * MsPerSecond <= raw
               /\ raw < (out.order.CreatedAt + 1) * MsPerSecond

C22_Witness ==
    \/ /\ out.op = "Binance" /\ out.raw.Time = 15999 /\ out.order.CreatedAt = 15
    \/ /\ out.op = "Kraken" /\ out.err = NoError
       /\ out.raw.OpenTimestamp = "15.75" /\ out.order.CreatedAt = 15

(***************************************************************************)
(* Bitfinex.GetOrderbookEx over the store of the adapter                   *)
(***************************************************************************)
\* Orderbooks.GetOrderbook as a whole, under its lock.
GetOrderbook(books_, key) ==
    IF ~FirstCurrencyExists(books_, key[1])
    THEN [book |-> ZeroBase, err |-> ErrPrimaryCurrencyNotFound]
    ELSE IF ~SecondCurrencyExists(books_, key[1], key[2])
    THEN [book |-> ZeroBase, err |-> ErrSecondaryCurrencyNotFound]
    ELSE [book |-> Lookup(books_, key), err |-> NoError]

\* Orderbooks.ProcessOrderbook as a whole, under its lock.
ProcessOrderbook(books_, key, orderbookNew) ==
    IF FirstCurrencyExists(books_, key[1])
    THEN IF ~SecondCurrencyExists(books_, key[1], key[2])
         THEN MapSet(books_, key[1],
                     MapSet(books_[key[1]], key[2], MapSet(EmptyMap, key[3], orderbookNew)))
         ELSE MapSet(books_, key[1],
                     MapSet(books_[key[1]], key[2],
                            MapSet(books_[key[1]][key[2]], key[3], orderbookNew)))
    ELSE MapSet(books_, key[1],
                MapSet(EmptyMap, key[2], MapSet(EmptyMap, key[3], orderbookNew)))

\* The n-th snapshot.
Snapshot(n) == [Bids |-> n, Asks |-> n, LastUpdated |-> n]

\* Bitfinex.UpdateOrderbook: fetched tells whether the exchange gave its order
\* book, which becomes the n-th snapshot of the store.  fetches is history: a
\* request for the order book went to the exchange.
UpdateOrderbook(books_, key, fetched, n) ==
    IF ~fetched
    THEN [orderbooks |-> books_, book |-> ZeroBase, err |-> ErrTransport, fetches |-> TRUE]
    ELSE LET stored == ProcessOrderbook(books_, key, Snapshot(n))
         IN  [orderbooks |-> stored, book |-> GetOrderbook(stored, key).book,
              err |-> GetOrderbook(stored, key).err, fetches |-> TRUE]

\* Mutant: the error of the lookup is returned to the caller.
GetOrderbookEx_ReturnsLookupError(books_, key, fetched, n) ==
    LET found == GetOrderbook(books_, key)
    IN  IF found.err = NoError
        THEN [orderbooks |-> books_, book |-> found.book, err |-> NoError,
              fetches |-> FALSE]
        ELSE [orderbooks |-> books_, book |-> found.book, err |-> found.err,
              fetches |-> FALSE]

\* Mutant: the order book is fetched when the store has none of the pair.
GetOrderbookEx_FetchesWhenMissing(books_, key, fetched, n) ==
    LET found == GetOrderbook(books_, key)
    IN  IF found.err # NoError
        THEN UpdateOrderbook(books_, key, fetched, n)
        ELSE [orderbooks |-> books_, book |-> found.book, err |-> NoError,
              fetches |-> FALSE]

\* Bitfinex.GetOrderbookEx: the store it leaves and what it returns.
GetOrderbookEx(books_, key, fetched, n) ==
    LET found == GetOrderbook(books_, key)
    IN  IF found.err = NoError
        THEN UpdateOrderbook(books_, key, fetched, n)
        ELSE [orderbooks |-> books_, book |-> found.book, err |-> NoError,
              fetches |-> FALSE]

ExUnchanged == UNCHANGED <<m, proc, committed, arg, tables, Rest_>>

\* A snapshot comes in for a key (the websocket feed or UpdateOrderbook).
StoreSnapshot ==
    /\ puts < MaxPuts
    /\ \E key \in BookKeys :
         orderbooks' = ProcessOrderbook(orderbooks, key, Snapshot(puts + 1))
    /\ puts' = puts + 1
    /\ out' = NoOut
    /\ ExUnchanged

\* One call of GetOrderbookEx; stored tells whether the store had a snapshot
\* of the pair when the call was made.
GetOrderbookExCall ==
    /\ \E key \in BookKeys, fetched \in BOOLEAN :
         \E r \in {GetOrderbookEx(orderbooks, key, fetched, puts + 1)} :
            /\ r.orderbooks # orderbooks => puts < MaxPuts
            /\ orderbooks' = r.orderbooks
            /\ puts' = IF r.orderbooks # orderbooks THEN puts + 1 ELSE puts
            /\ out' = [op |-> "GetOrderbookEx", key |-> key,
                       stored |-> SecondCurrencyExists(orderbooks, key[1], key[2]),
                       empty |-> orderbooks = EmptyMap,
                       fetches |-> r.fetches, book |-> r.book, err |-> r.err]
    /\ ExUnchanged

NextOrderbookEx == StoreSnapshot \/ GetOrderbookExCall

SpecOrderbookEx == InitOrderbook /\ [][NextOrderbookEx]_vars

\* C26: GetOrderbookEx on a store that has no snapshot of the pair asked for
\* returns no error.
C26_NoSnapshotNoError ==
    (out.op = "GetOrderbookEx" /\ ~out.stored) => out.err = NoError

C26_Witness ==
    /\ out.op = "GetOrderbookEx" /\ ~out.stored /\ ~out.empty
    /\ out.err = NoError /\ out.book = ZeroBase

\* C37: GetOrderbookEx asks the exchange for the order book exactly when the
\* store has a snapshot of the pair, returns the empty snapshot and no error
\* when it has none, and on an empty store neither fetches nor stores.
C37_FetchesOnlyWhenStored ==
    out.op = "GetOrderbookEx"
        => /\ out.fetches <=> out.stored
           /\ ~out.stored => (out.book = ZeroBase /\ out.err = NoError)
           /\ out.empty => (~out.fetches /\ orderbooks = EmptyMap)

\* C37 witness: the store has a snapshot of the pair and the call replaces it
\* with the one it fetched.
C37_Witness ==
    /\ out.op = "GetOrderbookEx" /\ out.stored /\ out.fetches
    /\ out.err = NoError /\ out.book = Snapshot(MaxPuts)

(***************************************************************************)
(* The dispatcher that counts requests (Binance.SendRateLimitedHTTPRequest)*)
(***************************************************************************)
\* &rateLimitInfo{}: the entry the dispatcher makes for a key that has none,
\* so that a map without the key and a map with this entry behave alike.
ZeroRateLimitInfo == [StartTime |-> 0, RequestCount |-> 0]

\* The length of the window of the counter, and the minute of the quota, in
\* seconds.
CounterWindow == 90
MinuteSeconds == 60

\* The number of requests sent that the history keeps.
MaxSent == 4

\* requestsPerMin of the calls on a key.
CounterQuota(key) == IF key = KeyBalances THEN 1 ELSE 2

\* The clock readings of the calls, as offsets from StartTime in milliseconds.
CounterTimes ==
    {StartTime + d : d \in {0, 1000, 59000, 60000, 90000, 91000, 92000, 150000}}

\* time.Now().Unix()
Unix(ms) == ms \div MsPerSecond

\* The counter is started anew.
CounterExpired(info, curTimeStamp) ==
    (info.StartTime = 0) \/ ((curTimeStamp - info.StartTime) > CounterWindow)

\* Binance.SendRateLimitedHTTPRequest on the map limits: the map it leaves,
\* whether the request was skipped or sent, the error returned and the value
\* in result.
BinanceSendRateLimitedHTTPRequest(limits, curTimeStamp, requestsPerMin, key, auth, old, defaultValue, resp) ==
    LET rateLimit == IF CounterExpired(limits[key], curTimeStamp)
                     THEN [StartTime |-> curTimeStamp, RequestCount |-> 0]
                     ELSE limits[key]
    IN  IF rateLimit.RequestCount < requestsPerMin
        THEN LET s == BinanceSendAuthenticatedHTTPRequest(auth, resp, old)
             IN  [rateLimits |-> [limits EXCEPT ![key] =
                                     [rateLimit EXCEPT !.RequestCount = @ + 1]],
                  skipped |-> FALSE, sent |-> auth, err |-> s.err, result |-> s.result]
        ELSE [rateLimits |-> [limits EXCEPT ![key] = rateLimit],
              skipped |-> TRUE, sent |-> FALSE,
              err |-> IF defaultValue = NilValue THEN ErrNilDefault ELSE NoError,
              result |-> IF defaultValue = NilValue THEN old ELSE defaultValue]

CounterUnchanged ==
    UNCHANGED <<ipBanStartTime, lastBalances, lastActiveOrders,
                AuthenticatedAPISupport, Nonce, nanos, throttle, lastSuccess,
                nonceLog, books, conversions>>

\* The wall clock advances.
TickCounter ==
    /\ \E t \in CounterTimes : t > now /\ now' = t
    /\ UNCHANGED <<rateLimits, ret, log>>
    /\ CounterUnchanged

\* One call of the dispatcher; log has the requests that were sent.
CounterDispatch ==
    /\ Len(log) < MaxSent
    /\ \E key \in Keys, dv \in Defaults :
         \E resp \in IF Configured("Binance") THEN BinanceResponses ELSE {NoResponse} :
           \E r \in {BinanceSendRateLimitedHTTPRequest(rateLimits, Unix(now),
                          CounterQuota(key), key, Configured("Binance"), "V0", dv, resp)} :
              /\ rateLimits' = r.rateLimits
              /\ ret' = [op |-> "Binance.SendRateLimitedHTTPRequest", key |-> key,
                         dv |-> dv, skipped |-> r.skipped, sent |-> r.sent,
                         err |-> r.err, result |-> r.result]
              /\ log' = IF r.sent THEN Append(log, [key |-> key, t |-> Unix(now)])
                        ELSE log
    /\ UNCHANGED now
    /\ CounterUnchanged

InitCounter ==
    /\ rateLimits = [k \in Keys |-> ZeroRateLimitInfo]
    /\ InitFields
    /\ AuthenticatedAPISupport \in {[a \in Adapters |-> b] : b \in BOOLEAN}

NextCounter == TickCounter \/ CounterDispatch

SpecCounter == InitCounter /\ [][NextCounter]_vars

\* The requests sent on key in the minute that starts at second t.
SentInMinute(key, t) ==
    {i \in 1..Len(log) : log[i].key = key /\ t <= log[i].t /\ log[i].t < t + MinuteSeconds}

\* C25: on every key the requests sent to the exchange within any 60 seconds
\* are no more than requestsPerMin.
C25_CounterQuotaPerMinute ==
    \A key \in Keys : \A i \in 1..Len(log) :
        Cardinality(SentInMinute(key, log[i].t)) <= CounterQuota(key)

\* C28: a call of the dispatcher that was skipped and served from the default
\* value returns the RateLimited signal, never a nil error.
C28_FallbackSignalled ==
    (/\ ret.op = "Binance.SendRateLimitedHTTPRequest"
     /\ ret.skipped /\ ret.dv # NilValue)
        => /\ ret.result = ret.dv
           /\ ret.err = WarningHTTPRequestRateLimited

(***************************************************************************)
(* Bitfinex.SendRateLimitedHTTPRequest called by concurrent goroutines     *)
(***************************************************************************)
\* The function takes no lock: between its reads of rateLimits and
\* ipBanStartTime, the request and its writes of the two, the other goroutines
\* run.  proc[g] is the call of goroutine g: where it stands and its locals.
QuotaOf(key) == IF key = KeyBalances THEN QuotaBalances ELSE QuotaOrders

ConcurrentResponses ==
    [transportOK : {TRUE}, status : {200}, body : {Data("V1"), Body("ratelimit")}]
    \cup [transportOK : {TRUE}, status : {500}, body : {Body("garbage")}]

DispatchUnchanged ==
    UNCHANGED <<now, lastBalances, lastActiveOrders, AuthenticatedAPISupport, nanos,
                ret, throttle, lastSuccess, log, nonceLog, orderbooks, m, committed,
                puts, conversions>>

\* curTimestamp, requestDelay, lastRequestTime and skipRequest are computed; a
\* skipped call sets the default and returns.
CheckThrottle(g) ==
    /\ Ready(g)
    /\ \E key \in Keys :
         LET skipRequest == SkipRequest(now, rateLimits[key], ipBanStartTime,
                                        RequestDelay(QuotaOf(key)))
         IN  proc' = [proc EXCEPT ![g] =
                 [pc |-> IF skipRequest THEN "done" ELSE "send", key |-> key,
                  curTimestamp |-> now, sent |-> FALSE, netErr |-> NoError,
                  err |-> IF skipRequest THEN SetDefault("V0", "D1").err ELSE NoError]]
    /\ UNCHANGED <<rateLimits, ipBanStartTime, Nonce>>
    /\ DispatchUnchanged

\* The request is made; its error is in the local err.
SendRequest(g) ==
    /\ proc[g].pc = "send"
    /\ \E resp \in IF AuthenticatedAPISupport["Bitfinex"]
                    THEN ConcurrentResponses ELSE {NoResponse} :
         \E s \in {SendByVersion(bitfinexAPIVersion1, AuthenticatedAPISupport["Bitfinex"],
                                 Nonce["Bitfinex"], nanos, resp, "V0")} :
            /\ s.nonce <= MaxNonce
            /\ Nonce' = [Nonce EXCEPT !["Bitfinex"] = s.nonce]
            /\ proc' = [proc EXCEPT ![g].pc = "store", ![g].sent = s.sent,
                                    ![g].netErr = s.err]
    /\ UNCHANGED <<rateLimits, ipBanStartTime>>
    /\ DispatchUnchanged

\* The bookkeeping after the request, with the curTimestamp of the check.
StoreBookkeeping(g) ==
    /\ proc[g].pc = "store"
    /\ \E a \in {AfterSend(proc[g].netErr, proc[g].key, proc[g].curTimestamp,
                            rateLimits, ipBanStartTime)} :
         /\ rateLimits' = a.rateLimits
         /\ ipBanStartTime' = a.ipBanStartTime
         /\ proc' = [proc EXCEPT ![g].pc = "done",
                                 ![g].err = IF a.skip THEN SetDefault("V0", "D1").err
                                            ELSE proc[g].netErr]
    /\ UNCHANGED Nonce
    /\ DispatchUnchanged

NextConcurrent ==
    \/ Tick
    \/ \E g \in Goroutines : CheckThrottle(g) \/ SendRequest(g) \/ StoreBookkeeping(g)

SpecConcurrent == Init /\ [][NextConcurrent]_vars

\* Goroutine g made a request that the exchange served.
Served(g) ==
    /\ proc[g].pc \in {"store", "done"}
    /\ proc[g].sent /\ proc[g].netErr = NoError

\* C24: under every interleaving of concurrent calls no two goroutines make a
\* served request on one key less than the minimum interval of the key apart,
\* and the ban marker set by a throttled call is not lost while its window
\* lasts.
C24_DispatcherBookkeepingLocked ==
    /\ \A g, h \in Goroutines :
         (g # h /\ Served(g) /\ Served(h) /\ proc[g].key = proc[h].key
          /\ proc[g].curTimestamp <= proc[h].curTimestamp)
            => proc[h].curTimestamp - proc[g].curTimestamp
                  >= RequestDelay(QuotaOf(proc[g].key))
    /\ \A g \in Goroutines :
         (proc[g].pc = "done" /\ proc[g].netErr = errRateLimit
          /\ now - proc[g].curTimestamp < BanWindow)
            => ipBanStartTime # 0

(***************************************************************************)
(* Claims about the request functions (specification SpecRequest)          *)
(***************************************************************************)
\* The response is a business-logic error of the exchange: a response of a
\* status outside 2xx with an error body, or a success = false envelope.
BusinessError ==
    /\ out.op \in {"Binance.Send", "Bitfinex.Send", "Bitfinex.Send2", "Bittrex.HTTPRequest"}
    /\ out.auth /\ out.resp.transportOK
    /\ \/ out.op = "Binance.Send" /\ out.resp.status = 400 /\ out.resp.body.kind = "errinfo"
       \/ out.op = "Bitfinex.Send" /\ out.resp.status = 200 /\ out.resp.body.kind = "message"
       \/ out.op = "Bitfinex.Send2" /\ out.resp.status = 500 /\ out.resp.body.kind = "errarray"
       \/ out.op = "Bittrex.HTTPRequest" /\ out.resp.body.kind = "failure"

\* C23: a business-logic error of the exchange is returned to the caller of the
\* request function as an error that is not nil and has the message of the
\* exchange; it is never reported as success.
C23_ProviderErrorPropagated ==
    BusinessError => out.err \in {ErrMessage, ErrV2Error, ErrNotSuccess}

\* C27: every response to an authenticated Bitfinex request with HTTP status
\* 429 or with the ERR_RATE_LIMIT token is classified as the throttle signal,
\* whatever else is in its body.
C27_ThrottleSignalClassified ==
    (/\ out.op \in {"Bitfinex.Send", "Bitfinex.Send2"}
     /\ out.auth /\ out.resp.transportOK
     /\ (out.resp.status = 429 \/ HasRateLimitToken(out.resp.body)))
        => out.err = errRateLimit

\* C33: a Kraken order with raw status "closed" is normalized to aborted when
\* its executed volume is less than its volume, and to filled when nothing
\* remains of it.
C33_ClosedOrderPolicy ==
    (out.op = "Kraken" /\ out.err = NoError /\ out.raw.Status = "closed")
        => out.order.Status = IF out.raw.VolumeExecuted < out.raw.Volume
                              THEN OrderStatusAborted
                              ELSE OrderStatusFilled

(***************************************************************************)
(* The normalizers on the symbol of the raw order                          *)
(***************************************************************************)
\* The canonical order with its CurrencyPair: n is the conversion of the other
\* fields of the raw order, codec what SymbolToCurrencyPair returned for the
\* symbol; the error of the codec is assigned to the blank identifier.
WithCurrencyPair(op, n, symbol, codec) ==
    [op |-> op, raw |-> n.raw, symbol |-> symbol, codec |-> codec, order |-> n.order,
     CurrencyPair |-> IF n.listed THEN codec.pair ELSE NoPair,
     err |-> n.err, listed |-> n.listed]

\* The raw orders whose symbols are converted: one time, side, amount and
\* price, every status.
KrakenSymbolOrders ==
    {n \in KrakenNormalized :
        /\ n.raw.OpenTimestamp = "15" /\ n.raw.Side = "buy" /\ n.raw.VolumeExecuted = 1
        /\ n.raw.AvgPrice = 0 /\ \A price \in LimitPrices : n.raw.Price <= price}
BitfinexSymbolOrders ==
    {n \in BitfinexNormalized :
        /\ n.raw.Timestamp = "15" /\ n.raw.Side = "buy" /\ n.raw.ExecutedAmount = 1
        /\ n.raw.AverageExecutionPrice = 0 /\ n.raw.Type = "exchange limit"
        /\ \A price \in LimitPrices : n.raw.Price <= price}

\* Kraken.convertOrderToExchangeOrder on a raw order and its Info.Pair
KrakenConvertPair ==
    /\ \E n \in KrakenSymbolOrders, symbol \in TableSymbols :
         out' = WithCurrencyPair("Kraken.convertOrderToExchangeOrder", n, symbol,
                                 KrakenSymbolToCurrencyPair(tables, symbol))
    /\ NormalizerUnchanged

\* Bitfinex.convertOrderToExchangeOrder on a raw order and its Symbol
BitfinexConvertPair ==
    /\ \E n \in BitfinexSymbolOrders, symbol \in ArgSymbols :
         out' = WithCurrencyPair("Bitfinex.convertOrderToExchangeOrder", n, symbol,
                                 BitfinexSymbolToCurrencyPair(symbol))
    /\ NormalizerUnchanged

NextSymbols == KrakenRun \/ KrakenConvertPair \/ BitfinexConvertPair

SpecSymbols == InitCodec /\ [][NextSymbols]_vars

\* C34: when the symbol codec fails on the symbol of a raw order, the
\* normalizer returns that error to its caller and no canonical order with an
\* empty currency pair.
C34_CodecFailurePropagated ==
    (/\ out.op \in {"Kraken.convertOrderToExchangeOrder",
                    "Bitfinex.convertOrderToExchangeOrder"}
     /\ out.codec.err # NoError)
        => out.err # NoError /\ ~out.listed

(***************************************************************************)
(* The nonce under concurrent authenticated requests                       *)
(***************************************************************************)
\* SendAuthenticatedHTTPRequest holds no lock: between Nonce.Get, Nonce.Set or
\* Nonce.Inc and Nonce.String of one request the calls of another goroutine on
\* the same adapter may run.  Each call of the Nonce is taken as one step.
NonceUnchanged ==
    UNCHANGED <<now, rateLimits, ipBanStartTime, lastBalances, lastActiveOrders,
                AuthenticatedAPISupport, nanos, throttle, lastSuccess, log, orderbooks,
                m, committed, puts, conversions>>

\* The requests of adapter a that are past the credentials check.
InFlight(a) == {g \in Goroutines : proc[g].pc # "idle" /\ proc[g].a = a}

\* The credentials check of goroutine g's request on adapter a
BeginRequest(g, a) ==
    /\ proc[g].pc = "idle"
    /\ Len(nonceLog[a]) + Cardinality(InFlight(a)) < MaxCalls
    /\ IF ~AuthenticatedAPISupport[a]
       THEN /\ ret' = NonceRecord("BeginRequest", ErrNoCredentials, 0)
            /\ proc' = proc
       ELSE /\ ret' = NonceRecord("BeginRequest", NoError, 0)
            /\ proc' = [proc EXCEPT ![g] = [pc |-> "get", a |-> a, zero |-> FALSE,
                                             clock |-> 0]]
    /\ UNCHANGED <<Nonce, nonceLog>>
    /\ NonceUnchanged

\* if b.Nonce.Get() == 0
GetNonce(g) ==
    /\ proc[g].pc = "get"
    /\ proc' = [proc EXCEPT ![g].pc = "step", ![g].zero = (NonceGet(Nonce[proc[g].a]) = 0)]
    /\ ret' = NonceRecord("GetNonce", NoError, Nonce[proc[g].a])
    /\ UNCHANGED <<Nonce, nonceLog>>
    /\ NonceUnchanged

\* b.Nonce.Set(time.Now().UnixNano()) or b.Nonce.Inc()
StepNonce(g) ==
    /\ proc[g].pc = "step"
    /\ LET a == proc[g].a
           n == IF proc[g].zero THEN NonceSet(Nonce[a], nanos) ELSE NonceInc(Nonce[a])
       IN  /\ n <= MaxNonce
           /\ Nonce' = [Nonce EXCEPT ![a] = n]
           /\ ret' = NonceRecord("StepNonce", NoError, n)
    /\ proc' = [proc EXCEPT ![g].pc = "string", ![g].clock = nanos]
    /\ UNCHANGED nonceLog
    /\ NonceUnchanged

\* request["nonce"] = b.Nonce.String(): the request is signed with the value
\* the counter has now; seeded tells whether the request set it from the clock.
FormatNonce(g) ==
    /\ proc[g].pc = "string"
    /\ LET a == proc[g].a
       IN  /\ nonceLog' = [nonceLog EXCEPT
                             ![a] = Append(@, [nonce |-> Nonce[a], seeded |-> proc[g].zero,
                                               clock |-> proc[g].clock])]
           /\ ret' = NonceRecord("FormatNonce", NoError, Nonce[a])
    /\ proc' = [proc EXCEPT ![g] = Idle]
    /\ UNCHANGED Nonce
    /\ NonceUnchanged

NextNonceConcurrent ==
    \/ TickNanos
    \/ \E g \in Goroutines :
         \/ \E a \in {"Bitfinex", "Bittrex"} : BeginRequest(g, a)
         \/ GetNonce(g)
         \/ StepNonce(g)
         \/ FormatNonce(g)

SpecNonceConcurrent == Init /\ [][NextNonceConcurrent]_vars

\* C35: under every interleaving of the nonce steps of concurrent requests on
\* one adapter no two requests are signed with the same nonce and at most one
\* request seeds the nonce from the clock.
C35_ConcurrentNoncesDistinct ==
    \A a \in Adapters :
        \A i, j \in 1..Len(nonceLog[a]) :
            i # j => /\ nonceLog[a][i].nonce # nonceLog[a][j].nonce
                     /\ ~(nonceLog[a][i].seeded /\ nonceLog[a][j].seeded)

(***************************************************************************)
(* The nonce across restarts of an adapter                                 *)
(***************************************************************************)
\* The clock counts ticks no longer than the time one request takes, so that
\* every request and every restart ends at least one tick after it began.
\* time.Now().UnixNano() reads the ticks, time.Now().Unix() the whole seconds.
TicksPerSecond == 4
MaxTicks == 9
UnixNano(t) == t
UnixSeconds(t) == t \div TicksPerSecond

\* The clock reading an adapter seeds its nonce from.
SeedClock(a, t) == IF a = "Liqui" THEN UnixSeconds(t) ELSE UnixNano(t)

RestartUnchanged ==
    UNCHANGED <<now, rateLimits, ipBanStartTime, lastBalances, lastActiveOrders,
                AuthenticatedAPISupport, throttle, lastSuccess, log, books, conversions>>

\* SendAuthenticatedHTTPRequest of adapter a, from the credentials check to the
\* response: the nonce step, the signed nonce, and the time the request takes.
TimedRequest(a) ==
    /\ \E t \in (nanos + 1)..MaxTicks : nanos' = t
    /\ IF ~AuthenticatedAPISupport[a]
       THEN /\ ret' = NonceRecord("TimedRequest", ErrNoCredentials, 0)
            /\ UNCHANGED <<Nonce, nonceLog>>
       ELSE LET n == NonceStep(Nonce[a], SeedClock(a, nanos))
            IN  /\ Nonce' = [Nonce EXCEPT ![a] = n]
                /\ nonceLog' = [nonceLog EXCEPT
                                  ![a] = Append(@, [nonce |-> n, before |-> Nonce[a],
                                                    clock |-> nanos])]
                /\ ret' = NonceRecord("TimedRequest", NoError, n)
    /\ RestartUnchanged

\* The process ends and a new instance of adapter a is constructed: its Nonce
\* is the zero value again.  nonceLog is what the exchange has seen of a.
Restart(a) ==
    /\ \E t \in (nanos + 1)..MaxTicks : nanos' = t
    /\ Nonce' = [Nonce EXCEPT ![a] = 0]
    /\ ret' = NonceRecord("Restart", NoError, 0)
    /\ UNCHANGED nonceLog
    /\ RestartUnchanged

NextRestart == \E a \in {"Bitfinex", "Liqui"} : TimedRequest(a) \/ Restart(a)

SpecRestart == Init /\ [][NextRestart]_vars

\* C36: the first nonce of a newly started instance, seeded from the clock, is
\* greater than every nonce an earlier instance of the adapter used (Liqui,
\* seeded from whole seconds, included).
C36_NonceIncreasesAcrossRestarts ==
    \A a \in Adapters :
        \A i, j \in 1..Len(nonceLog[a]) :
            (i < j /\ nonceLog[a][j].before = 0)
                => nonceLog[a][i].nonce < nonceLog[a][j].nonce

(***************************************************************************)
(* Cancelling an order                                                     *)
(***************************************************************************)
ErrSyntax == "strconv.ParseInt: invalid syntax"
ErrNotCancelled == "exchange error"

\* The error of strconv.ParseInt(s, 10, 64)
ParseIntError(s) ==
    LET signed == s # "" /\ Char(s, 1) \in {"+", "-"}
        digits == IF signed THEN SubSeq(s, 2, Len(s)) ELSE s
    IN  IF digits = "" \/ ParseUint(digits, 0) < 0 THEN ErrSyntax ELSE NoError

\* The order ids the caller passes, and the id of no request.
OrderIds == {"15", "-3", "", "abc", "15.75"}
NoId == "none"

\* The responses to Poloniex's cancel: none, a body that is not JSON, and the
\* generic response with success 1 or 0.
PoloniexResponses == {"transport", "garbage", "success", "failure"}

\* Poloniex.SendAuthenticatedHTTPRequest
PoloniexSendAuthenticatedHTTPRequest(auth, resp) ==
    IF ~auth THEN [err |-> ErrNoCredentials, sent |-> FALSE, Success |-> 0]
    ELSE IF resp = "transport" THEN [err |-> ErrTransport, sent |-> TRUE, Success |-> 0]
    ELSE IF resp = "garbage" THEN [err |-> ErrUnmarshal, sent |-> TRUE, Success |-> 0]
    ELSE [err |-> NoError, sent |-> TRUE, Success |-> IF resp = "success" THEN 1 ELSE 0]

\* Poloniex.cancelOrder
PoloniexCancel(auth, orderID, resp) ==
    LET r == PoloniexSendAuthenticatedHTTPRequest(auth, resp)
    IN  [err |-> IF r.err # NoError THEN r.err
                 ELSE IF r.Success # 1 THEN ErrNotCancelled
                 ELSE NoError,
         sent |-> r.sent, id |-> IF r.sent THEN orderID ELSE NoId,
         outcome |-> IF r.err # NoError THEN r.err
                     ELSE IF r.Success # 1 THEN ErrNotCancelled
                     ELSE NoError]

\* What CancelOrder returns without a request: the error err.
NotSent(err) == [err |-> err, sent |-> FALSE, id |-> NoId, outcome |-> NoError]

\* Poloniex.CancelOrder: the call returns when the id parses (err == nil).
PoloniexCancelOrderCall(auth, orderstr, resp) ==
    IF ParseIntError(orderstr) = NoError
    THEN NotSent(ParseIntError(orderstr))
    ELSE PoloniexCancel(auth, ParseInt(orderstr), resp)

\* Bitfinex.CancelOrder and cancelOrder
BitfinexCancelOrderCall(auth, nonce, clock, orderStr, resp) ==
    IF ParseIntError(orderStr) # NoError
    THEN NotSent(ParseIntError(orderStr))
    ELSE LET r == SendAuthenticatedHTTPRequest(auth, nonce, clock, resp, "V0")
         IN  [err |-> r.err, sent |-> r.sent,
              id |-> IF r.sent THEN ParseInt(orderStr) ELSE NoId, outcome |-> r.err]

\* The record of a call of CancelOrder.
Cancelled(op, orderstr, r) ==
    [op |-> op, orderstr |-> orderstr, parseErr |-> ParseIntError(orderstr),
     err |-> r.err, sent |-> r.sent, id |-> r.id, outcome |-> r.outcome]

CancelUnchanged ==
    UNCHANGED <<now, rateLimits, ipBanStartTime, lastBalances, lastActiveOrders,
                AuthenticatedAPISupport, nanos, ret, throttle, lastSuccess, log, nonceLog,
                books, arg, tables>>

\* A request that is sent takes the next nonce of the adapter.
PoloniexCancelOrder ==
    /\ \E orderstr \in OrderIds, resp \in PoloniexResponses :
         \E r \in {PoloniexCancelOrderCall(AuthenticatedAPISupport["Poloniex"], orderstr,
                                            resp)} :
            /\ out' = Cancelled("Poloniex.CancelOrder", orderstr, r)
            /\ Nonce' = IF r.sent
                         THEN [Nonce EXCEPT !["Poloniex"] = NonceStep(@, nanos)]
                         ELSE Nonce
    /\ Nonce'["Poloniex"] <= MaxNonce
    /\ CancelUnchanged

BitfinexCancelOrder ==
    /\ \E orderStr \in OrderIds, resp \in DispatchResponses :
         \E r \in {BitfinexCancelOrderCall(AuthenticatedAPISupport["Bitfinex"],
                                            Nonce["Bitfinex"], nanos, orderStr, resp)} :
            /\ out' = Cancelled("Bitfinex.CancelOrder", orderStr, r)
            /\ Nonce' = IF r.sent
                         THEN [Nonce EXCEPT !["Bitfinex"] = NonceStep(@, nanos)]
                         ELSE Nonce
    /\ Nonce'["Bitfinex"] <= MaxNonce
    /\ CancelUnchanged

NextCancel == PoloniexCancelOrder \/ BitfinexCancelOrder

SpecCancel == Init /\ [][NextCancel]_vars

\* C38: Poloniex.CancelOrder with an id that parses as an integer sends the
\* cancel request for that id and returns its outcome; with an id that does
\* not parse it returns the parse error and sends nothing.
C38_CancelSendsParsedId ==
    (out.op = "Poloniex.CancelOrder" /\ AuthenticatedAPISupport["Poloniex"])
        => IF out.parseErr = NoError
           THEN out.sent /\ out.id = ParseInt(out.orderstr) /\ out.err = out.outcome
           ELSE ~out.sent /\ out.err = out.parseErr

(***************************************************************************)
(* The order book store: progress of a finite set of calls                 *)
(***************************************************************************)
\* The steps of goroutine g inside a call, from o.m.Lock() to the return.
StepInCall(g) ==
    \/ AcquireLock(g) \/ GetCheck(g) \/ GetCopy(g) \/ ReleaseLock(g)
    \/ PutStamp(g) \/ PutNewMap(g) \/ PutStore(g)

\* The calls made: each goroutine makes GetOrderbook as its first call or not
\* at all, and ProcessOrderbook any time it is not in a call, MaxPuts in all.
NextOrderbookCalls ==
    \E g \in Goroutines :
        \/ proc[g].pc = "idle" /\ GetCall(g)
        \/ PutCall(g)
        \/ StepInCall(g)

\* The scheduler runs every goroutine that can take a step (a goroutine that
\* waits in Lock can take one while the mutex is free).
SpecOrderbookFair ==
    /\ InitOrderbook
    /\ [][NextOrderbookCalls]_vars
    /\ \A g \in Goroutines : WF_vars(StepInCall(g))

\* The positions of a call between o.m.Lock() and the deferred o.m.Unlock().
Holding == {"check", "stamp", "Bids", "Asks", "LastUpdated", "newSecond", "newFirst",
            "unlock"}

\* C39: a call holds the mutex from its Lock to its return and at no other
\* time, whatever the path by which it returns, and every call that waits for
\* the mutex returns in the end.
C39_EveryCallReturns ==
    /\ [](\A g \in Goroutines : (m = g) <=> (proc[g].pc \in Holding))
    /\ \A g \in Goroutines : (proc[g].pc = "lock") ~> (proc[g].pc = "done")

\* C39 witness: a GetOrderbook that found no snapshot and a ProcessOrderbook
\* have both returned, and the mutex is free.
C39_Witness ==
    /\ m = 0
    /\ \E g, h \in Goroutines :
         /\ proc[g].pc = "done" /\ proc[g].op = "GetOrderbook"
         /\ proc[g].err = ErrPrimaryCurrencyNotFound
         /\ proc[h].pc = "done" /\ proc[h].op = "ProcessOrderbook"

====
